---------------------------- MODULE Spec2Model ----------------------------
(***************************************************************************)
(* castenv: the normalization engine (normalize, normalize_config, the     *)
(* scalar parsers and the interpolator) and the layered sources with the   *)
(* process-wide configuration (configure, using, the dotenv cache,         *)
(* get_env).                                                               *)
(*                                                                         *)
(* A Python str is a sequence of one-character strings.  A Python float is *)
(* the exact decimal value sign * mant * 10^exp of the literal it was made *)
(* from (binary rounding is not modelled); an int is a TLC integer, so the *)
(* input vocabularies are chosen to keep every value within 32 bits.       *)
(***************************************************************************)
EXTENDS Integers, Sequences, FiniteSets, TLC

(***************************************************************************)
(* Bounds of the model.                                                    *)
(***************************************************************************)
\* pieces of vocabulary concatenated into one input of normalize, and into the
\* number text of one input of the byte-size parser
MaxParts == 3
\* pieces of vocabulary concatenated into one input of the duration parser
MaxLen == 4
\* pieces of vocabulary concatenated into one input of the interpolator
MaxTokens == 3
\* nesting depth of using(...) blocks
MaxDepth == 2
\* calls of configure, using, get_env and the like in one behaviour
MaxOps == 4

(***************************************************************************)
(* Characters and strings.                                                 *)
(***************************************************************************)
UpperChars ==
  <<"A","B","C","D","E","F","G","H","I","J","K","L","M",
    "N","O","P","Q","R","S","T","U","V","W","X","Y","Z">>

LowerChars ==
  <<"a","b","c","d","e","f","g","h","i","j","k","l","m",
    "n","o","p","q","r","s","t","u","v","w","x","y","z">>

DigitChars == <<"0","1","2","3","4","5","6","7","8","9">>

\* the characters Python's str.strip() and the regex class \s remove
Whitespace == {" ", "\t", "\n", "\r", "\f"}

Range(f) == {f[i] : i \in DOMAIN f}

IndexOf(seq, c) == CHOOSE i \in DOMAIN seq : seq[i] = c

IsUpper(c) == c \in Range(UpperChars)

IsLower(c) == c \in Range(LowerChars)

IsAlpha(c) == IsUpper(c) \/ IsLower(c)

IsDigit(c) == c \in Range(DigitChars)

DigitVal(c) == IndexOf(DigitChars, c) - 1

\* str.lower() on one character
LowerChar(c) == IF IsUpper(c) THEN LowerChars[IndexOf(UpperChars, c)] ELSE c

\* str.lower()
Lower(s) == [i \in DOMAIN s |-> LowerChar(s[i])]

\* s[i:j] with 1-based inclusive i and exclusive j
Slice(s, i, j) == IF j <= i THEN <<>> ELSE SubSeq(s, i, j - 1)

\* s[i:]
From(s, i) == Slice(s, i, Len(s) + 1)

StartsWith(s, p) == Len(s) >= Len(p) /\ SubSeq(s, 1, Len(p)) = p

EndsWith(s, p) == Len(s) >= Len(p) /\ SubSeq(s, Len(s) - Len(p) + 1, Len(s)) = p

\* p occurs in s at position i
OccursAt(s, p, i) == i + Len(p) - 1 <= Len(s) /\ SubSeq(s, i, i + Len(p) - 1) = p

\* the Python test `p in s`
Contains(s, p) == \E i \in 1..(Len(s) + 1) : OccursAt(s, p, i)

RECURSIVE LStrip(_)
LStrip(s) == IF s # <<>> /\ Head(s) \in Whitespace THEN LStrip(Tail(s)) ELSE s

RECURSIVE RStrip(_)
RStrip(s) ==
  IF s # <<>> /\ s[Len(s)] \in Whitespace THEN RStrip(SubSeq(s, 1, Len(s) - 1)) ELSE s

\* str.strip()
Strip(s) == RStrip(LStrip(s))

\* str.replace(old, new): every non-overlapping occurrence, left to right
RECURSIVE Replace(_, _, _)
Replace(s, old, new) ==
  IF s = <<>> THEN <<>>
  ELSE IF StartsWith(s, old) THEN new \o Replace(From(s, Len(old) + 1), old, new)
  ELSE <<Head(s)>> \o Replace(Tail(s), old, new)

\* str.split(sep) for a nonempty sep
RECURSIVE SplitFrom(_, _, _)
SplitFrom(s, sep, cur) ==
  IF s = <<>> THEN <<cur>>
  ELSE IF StartsWith(s, sep) THEN <<cur>> \o SplitFrom(From(s, Len(sep) + 1), sep, <<>>)
  ELSE SplitFrom(Tail(s), sep, Append(cur, Head(s)))

Split(s, sep) == SplitFrom(s, sep, <<>>)

\* length of the longest prefix of s[i..] whose characters all satisfy the class
RECURSIVE RunLen(_, _, _)
RunLen(s, i, class) ==
  IF i <= Len(s) /\ s[i] \in class THEN 1 + RunLen(s, i + 1, class) ELSE 0

RECURSIVE Pow(_, _)
Pow(b, e) == IF e = 0 THEN 1 ELSE b * Pow(b, e - 1)

Abs(n) == IF n < 0 THEN -n ELSE n

\* the decimal digits of a natural number
RECURSIVE NatStr(_)
NatStr(n) == IF n < 10 THEN <<DigitChars[n + 1]>> ELSE Append(NatStr(n \div 10), DigitChars[(n % 10) + 1])

\* str(int)
IntStr(n) == IF n < 0 THEN <<"-">> \o NatStr(-n) ELSE NatStr(n)

\* the value of a run of decimal digits
RECURSIVE DecVal(_)
DecVal(s) == IF s = <<>> THEN 0 ELSE DecVal(SubSeq(s, 1, Len(s) - 1)) * 10 + DigitVal(s[Len(s)])

(***************************************************************************)
(* Python values.                                                          *)
(***************************************************************************)
None == [t |-> "None"]

PyBool(b) == [t |-> "bool", v |-> b]

PyInt(n) == [t |-> "int", v |-> n]

PyStr(s) == [t |-> "str", v |-> s]

PyList(items) == [t |-> "list", v |-> items]

\* a dict with its items in insertion order, each <<key, value>>
PyDict(items) == [t |-> "dict", v |-> items]

\* an exception leaving the call
Raise(exc) == [t |-> "raise", exc |-> exc]

\* the parsers' "no match" (None, (False, _) or the _NO_RESULT sentinel)
NoMatch == [t |-> "nomatch"]

IsStr(x) == x.t = "str"

(***************************************************************************)
(* Floats: sgn * mant * 10^exp with mant >= 0 and no trailing zero, or an  *)
(* infinity.                                                               *)
(***************************************************************************)
RECURSIVE NumDigits(_)
NumDigits(n) == IF n < 10 THEN 1 ELSE 1 + NumDigits(n \div 10)

RECURSIVE StripZeros(_, _)
StripZeros(mant, exp) ==
  IF mant = 0 THEN <<0, 0>>
  ELSE IF mant % 10 = 0 THEN StripZeros(mant \div 10, exp + 1)
  ELSE <<mant, exp>>

\* digit sequence a, padded with zeros, is below digit sequence b
RECURSIVE DigitsBelow(_, _)
DigitsBelow(a, b) ==
  IF b = <<>> THEN FALSE
  ELSE IF a = <<>> THEN \E i \in DOMAIN b : b[i] # "0"
  ELSE IF Head(a) # Head(b) THEN DigitVal(Head(a)) < DigitVal(Head(b))
  ELSE DigitsBelow(Tail(a), Tail(b))

\* the decimals at which a double rounds to infinity (2^1024 - 2^970) and
\* to zero (half the least subnormal)
MaxFloatDigits == <<"1","7","9","7","6","9","3","1","3","4","8","6","2","3","1","5","8","0","8">>

MinFloatDigits == <<"2","4","7","0","3","2","8","2","2","9","2","0","6","2","3","2","7","2","1">>

Inf(sgn) == [t |-> "float", sgn |-> sgn, mant |-> 0, exp |-> 0, inf |-> TRUE]

PyFloat(sgn, mant, exp) ==
  LET n == StripZeros(mant, exp)
      sci == n[2] + NumDigits(n[1]) - 1
      zero == [t |-> "float", sgn |-> sgn, mant |-> 0, exp |-> 0, inf |-> FALSE]
  IN  IF n[1] = 0 THEN zero
      ELSE IF sci > 308
              \/ (sci = 308 /\ ~DigitsBelow(NatStr(n[1]), MaxFloatDigits))
        THEN Inf(sgn)
      ELSE IF sci < -324
              \/ (sci = -324 /\ DigitsBelow(NatStr(n[1]), MinFloatDigits))
        THEN zero
      ELSE [t |-> "float", sgn |-> sgn, mant |-> n[1], exp |-> n[2], inf |-> FALSE]

\* float(int)
IntToFloat(n) == PyFloat(IF n < 0 THEN -1 ELSE 1, Abs(n), 0)

\* f * k for an int k > 0
FloatMulInt(f, k) == IF f.inf THEN f ELSE PyFloat(f.sgn, f.mant * k, f.exp)

\* f / 10^k
FloatDivPow10(f, k) == IF f.inf THEN f ELSE PyFloat(f.sgn, f.mant, f.exp - k)

\* f + g
FloatAdd(f, g) ==
  IF f.inf THEN f
  ELSE IF g.inf THEN g
  ELSE LET e == IF f.exp < g.exp THEN f.exp ELSE g.exp
           a == f.sgn * f.mant * Pow(10, f.exp - e)
           b == g.sgn * g.mant * Pow(10, g.exp - e)
       IN  IF f.mant = 0 THEN (IF g.mant = 0 /\ f.sgn = 1 THEN f ELSE g)
           ELSE IF g.mant = 0 THEN f
           ELSE PyFloat(IF a + b < 0 THEN -1 ELSE 1, Abs(a + b), e)

\* int(f): truncation towards zero; int(inf) raises OverflowError
FloatToInt(f) ==
  IF f.inf THEN Raise("OverflowError")
  ELSE IF f.exp >= 0 THEN PyInt(f.sgn * f.mant * Pow(10, f.exp))
  ELSE IF -f.exp >= NumDigits(f.mant) THEN PyInt(0)
  ELSE PyInt(f.sgn * (f.mant \div Pow(10, -f.exp)))

Zeros(n) == [i \in 1..n |-> "0"]

\* repr(float) and str(float): positional for 1e-4 <= |f| < 1e16, else
\* scientific with an exponent of at least two digits
FloatStr(f) ==
  LET ds == NatStr(f.mant)
      nd == Len(ds)
      sci == f.exp + nd - 1
      sign == IF f.sgn < 0 THEN <<"-">> ELSE <<>>
      expo == (IF sci < 0 THEN <<"-">> ELSE <<"+">>)
              \o (IF Abs(sci) < 10 THEN <<"0">> ELSE <<>>) \o NatStr(Abs(sci))
  IN  IF f.inf THEN sign \o <<"i","n","f">>
      ELSE IF f.mant = 0 THEN sign \o <<"0",".","0">>
      ELSE IF sci >= 16 \/ sci < -4
        THEN sign \o <<Head(ds)>> \o (IF nd > 1 THEN <<".">> \o Tail(ds) ELSE <<>>)
             \o <<"e">> \o expo
      ELSE IF f.exp >= 0 THEN sign \o ds \o Zeros(f.exp) \o <<".","0">>
      ELSE IF -f.exp < nd
        THEN sign \o SubSeq(ds, 1, nd + f.exp) \o <<".">> \o SubSeq(ds, nd + f.exp + 1, nd)
      ELSE sign \o <<"0",".">> \o Zeros(-f.exp - nd) \o ds

(***************************************************************************)
(* Scalar parsers.                                                         *)
(***************************************************************************)
Digits == Range(DigitChars)

Letters == Range(UpperChars) \cup Range(LowerChars)

_NULL_SENTINELS ==
  { <<"n","u","l","l">>, <<"n","o","n","e">>, <<"n","i","l">>,
    <<"u","n","d","e","f","i","n","e","d">> }

_TRUE_SENTINELS == { <<"t","r","u","e">>, <<"y","e","s">>, <<"y">>, <<"o","n">>, <<"1">> }

_FALSE_SENTINELS == { <<"f","a","l","s","e">>, <<"n","o">>, <<"n">>, <<"o","f","f">>, <<"0">> }

\* a unit's factor is base^exp
_SIZE_UNITS_IEC ==
  { <<<<"b">>, 1024, 0>>,
    <<<<"k">>, 1024, 1>>, <<<<"k","b">>, 1024, 1>>, <<<<"k","i","b">>, 1024, 1>>,
    <<<<"m">>, 1024, 2>>, <<<<"m","b">>, 1024, 2>>, <<<<"m","i","b">>, 1024, 2>>,
    <<<<"g">>, 1024, 3>>, <<<<"g","b">>, 1024, 3>>, <<<<"g","i","b">>, 1024, 3>>,
    <<<<"t">>, 1024, 4>>, <<<<"t","b">>, 1024, 4>>, <<<<"t","i","b">>, 1024, 4>> }

_SIZE_UNITS_SI ==
  { <<<<"k","b","_","s","i">>, 1000, 1>>, <<<<"m","b","_","s","i">>, 1000, 2>>,
    <<<<"g","b","_","s","i">>, 1000, 3>>, <<<<"t","b","_","s","i">>, 1000, 4>> }

\* dict.get(key): the factor of a unit as base^exp, or NoMatch
UnitGet(table, key) ==
  IF \E e \in table : e[1] = key
    THEN LET e == CHOOSE e \in table : e[1] = key
         IN  [t |-> "factor", base |-> e[2], exp |-> e[3]]
    ELSE NoMatch

\* the digits int(val, base) accepts
BaseDigits(base) ==
  IF base = 16
    THEN Digits \cup {"a","b","c","d","e","f","A","B","C","D","E","F"}
    ELSE {DigitChars[i] : i \in 1..base}

BaseDigitVal(c) == IF IsDigit(c) THEN DigitVal(c) ELSE 9 + IndexOf(LowerChars, LowerChar(c))

\* the value of digits with single underscores before them, or -1
RECURSIVE BaseBody(_, _, _)
BaseBody(s, base, acc) ==
  IF s = <<>> THEN acc
  ELSE LET r == IF Head(s) = "_" THEN Tail(s) ELSE s
       IN  IF r = <<>> \/ Head(r) \notin BaseDigits(base) THEN -1
           ELSE BaseBody(Tail(r), base, acc * base + BaseDigitVal(Head(r)))

\* int(val, base) for a val that starts with the base's prefix; NoMatch is
\* the ValueError the caller catches
PyIntParse(val, base) ==
  LET body == From(Strip(val), 3)
      v == BaseBody(body, base, 0)
  IN  IF body = <<>> \/ v < 0 THEN NoMatch ELSE PyInt(v)

\* re.fullmatch(r"[+-]?\d+", val)
IsIntLiteral(val) ==
  LET u == IF val # <<>> /\ Head(val) \in {"+", "-"} THEN Tail(val) ELSE val
  IN  u # <<>> /\ \A i \in DOMAIN u : IsDigit(u[i])

\* float(val) when val matches
\* [+-]?(?:\d+\.\d*|\.\d+|\d+)(?:[eE][+-]?\d+)?, else NoMatch
FloatLiteral(val) ==
  LET neg == val # <<>> /\ Head(val) = "-"
      u == IF val # <<>> /\ Head(val) \in {"+", "-"} THEN Tail(val) ELSE val
      ni == RunLen(u, 1, Digits)
      dot == ni < Len(u) /\ u[ni + 1] = "."
      nf == IF dot THEN RunLen(u, ni + 2, Digits) ELSE 0
      p == ni + (IF dot THEN 1 + nf ELSE 0)
      mantOk == IF dot THEN ni + nf >= 1 ELSE ni >= 1
      hasE == p < Len(u) /\ u[p + 1] \in {"e", "E"}
      esign == hasE /\ p + 1 < Len(u) /\ u[p + 2] \in {"+", "-"}
      es == p + 1 + (IF esign THEN 1 ELSE 0)
      ne == IF hasE THEN RunLen(u, es + 1, Digits) ELSE 0
      last == IF hasE THEN es + ne ELSE p
      mant == DecVal(Slice(u, 1, ni + 1) \o Slice(u, ni + 2, ni + 2 + nf))
      ex == IF hasE
              THEN (IF esign /\ u[p + 2] = "-" THEN -1 ELSE 1) * DecVal(Slice(u, es + 1, es + 1 + ne))
              ELSE 0
  IN  IF mantOk /\ (hasE => ne >= 1) /\ last = Len(u)
        THEN PyFloat(IF neg THEN -1 ELSE 1, mant, ex - nf)
        ELSE NoMatch

Prefixed(val, c) == StartsWith(val, <<"0", c>>) \/ StartsWith(val, <<"0", UpperChars[IndexOf(LowerChars, c)]>>)

_try_number(val) ==
  IF Prefixed(val, "x") THEN PyIntParse(val, 16)
  ELSE IF Prefixed(val, "b") THEN PyIntParse(val, 2)
  ELSE IF Prefixed(val, "o") THEN PyIntParse(val, 8)
  ELSE IF IsIntLiteral(val)
    THEN PyInt((IF Head(val) = "-" THEN -1 ELSE 1)
               * DecVal(IF Head(val) \in {"+", "-"} THEN Tail(val) ELSE val))
  ELSE FloatLiteral(val)

\* the unit alternatives of _DURATION_PART in the order the regex tries
\* them, each with its seconds as mul / 10^div
DurationUnits ==
  << <<<<"n","s">>, 1, 9>>, <<<<"u","s">>, 1, 6>>, <<<<"MICRO","s">>, 1, 6>>,
     <<<<"m","s">>, 1, 3>>, <<<<"s">>, 1, 0>>, <<<<"m">>, 60, 0>>,
     <<<<"h">>, 3600, 0>>, <<<<"d">>, 86400, 0>>, <<<<"w">>, 604800, 0>> >>

Min(S) == CHOOSE x \in S : \A y \in S : x <= y

Max(S) == CHOOSE x \in S : \A y \in S : x >= y

\* _DURATION_PART.match(val, i): [ok, next, secs]
_DURATION_PART(val, i) ==
  LET ni == RunLen(val, i, Digits)
      nf0 == IF ni >= 1 /\ i + ni <= Len(val) /\ val[i + ni] = "."
               THEN RunLen(val, i + ni + 1, Digits) ELSE 0
      u == i + ni + (IF nf0 >= 1 THEN 1 + nf0 ELSE 0)
      alts == {k \in DOMAIN DurationUnits : OccursAt(val, DurationUnits[k][1], u)}
      unit == DurationUnits[Min(alts)]
      amount == PyFloat(1, DecVal(Slice(val, i, i + ni) \o Slice(val, i + ni + 1, u)),
                        -nf0)
  IN  IF ni = 0 \/ alts = {}
        THEN [ok |-> FALSE]
        ELSE [ok |-> TRUE, next |-> u + Len(unit[1]),
              secs |-> FloatDivPow10(FloatMulInt(amount, unit[2]), unit[3])]

\* the loop over _DURATION_PART.finditer(val) from position pos
RECURSIVE DurationScan(_, _, _)
DurationScan(val, pos, total) ==
  LET starts == {i \in pos..Len(val) : _DURATION_PART(val, i).ok}
  IN  IF starts = {}
        THEN (IF pos = Len(val) + 1 THEN total ELSE NoMatch)
      ELSE IF Min(starts) # pos THEN NoMatch
      ELSE LET m == _DURATION_PART(val, pos)
           IN  DurationScan(val, m.next, FloatAdd(total, m.secs))

_parse_duration_to_seconds(val) == DurationScan(val, 1, PyFloat(1, 0, 0))

\* the factor looked up without regard to the case of the token
SizeFactorAnyCase(unit_raw) == UnitGet(_SIZE_UNITS_IEC, Lower(unit_raw))

\* the unit table and key _parse_bytes looks the factor up in
SizeFactor(unit_raw) ==
  LET unit == Lower(unit_raw)
  IN  IF unit \in {<<"k","b">>, <<"m","b">>, <<"g","b">>, <<"t","b">>}
         /\ \E i \in DOMAIN unit_raw : IsUpper(unit_raw[i])
        THEN UnitGet(_SIZE_UNITS_SI, unit \o <<"_","s","i">>)
        ELSE UnitGet(_SIZE_UNITS_IEC, unit)

_parse_bytes(val) ==
  LET a == LStrip(val)
      neg == a # <<>> /\ Head(a) = "-"
      u == IF a # <<>> /\ Head(a) \in {"+", "-"} THEN Tail(a) ELSE a
      ni == RunLen(u, 1, Digits)
      nf0 == IF ni >= 1 /\ ni < Len(u) /\ u[ni + 1] = "."
               THEN RunLen(u, ni + 2, Digits) ELSE 0
      p == ni + (IF nf0 >= 1 THEN 1 + nf0 ELSE 0)
      ws1 == RunLen(u, p + 1, Whitespace)
      nu == RunLen(u, p + ws1 + 1, Letters)
      ws2 == RunLen(u, p + ws1 + nu + 1, Whitespace)
      num == PyFloat(IF neg THEN -1 ELSE 1,
                     DecVal(Slice(u, 1, ni + 1) \o Slice(u, ni + 2, p + 1)), -nf0)
      unit_raw == IF nu = 0 THEN <<"b">> ELSE Slice(u, p + ws1 + 1, p + ws1 + nu + 1)
      factor == SizeFactor(unit_raw)
  IN  IF ni = 0 \/ p + ws1 + nu + ws2 # Len(u) THEN NoMatch
      ELSE IF factor = NoMatch THEN NoMatch
      ELSE FloatToInt(FloatMulInt(num, Pow(factor.base, factor.exp)))

(***************************************************************************)
(* Interpolation.  os.environ is a function from the names that are set to *)
(* their values.                                                           *)
(***************************************************************************)
IdentStart == Letters \cup {"_"}

IdentChars == IdentStart \cup Digits

\* length of the longest prefix of s[i..] without the character c
RECURSIVE RunLenNot(_, _, _)
RunLenNot(s, i, c) == IF i <= Len(s) /\ s[i] # c THEN 1 + RunLenNot(s, i + 1, c) ELSE 0

\* _ENV_VAR_PATTERN.match(s, i): the groups name, default and short, each
\* NoMatch when it did not take part, and the position after the match
_ENV_VAR_PATTERN(s, i) ==
  LET n == RunLen(s, i + 2, IdentChars)
      after == i + 2 + n
      dl == RunLenNot(s, after + 2, "}")
      braced == i + 2 <= Len(s) /\ s[i + 1] = "{" /\ s[i + 2] \in IdentStart
      sn == RunLen(s, i + 1, IdentChars)
  IN  IF s[i] # "$" THEN [ok |-> FALSE]
      ELSE IF braced /\ after <= Len(s) /\ s[after] = "}"
        THEN [ok |-> TRUE, name |-> PyStr(Slice(s, i + 2, after)), default |-> NoMatch,
              short |-> NoMatch, next |-> after + 1]
      ELSE IF braced /\ OccursAt(s, <<":", "-">>, after) /\ after + 2 + dl <= Len(s)
        THEN [ok |-> TRUE, name |-> PyStr(Slice(s, i + 2, after)),
              default |-> PyStr(Slice(s, after + 2, after + 2 + dl)),
              short |-> NoMatch, next |-> after + 2 + dl + 1]
      ELSE IF i + 1 <= Len(s) /\ s[i + 1] \in IdentStart
        THEN [ok |-> TRUE, name |-> NoMatch, default |-> NoMatch,
              short |-> PyStr(Slice(s, i + 1, i + 1 + sn)), next |-> i + 1 + sn]
      ELSE [ok |-> FALSE]

\* the matches _ENV_VAR_PATTERN.sub visits, left to right, with the text
\* between them one character at a time
RECURSIVE PatternScan(_, _)
PatternScan(s, i) ==
  IF i > Len(s) THEN <<>>
  ELSE LET m == _ENV_VAR_PATTERN(s, i)
       IN  IF m.ok THEN <<m>> \o PatternScan(s, m.next)
           ELSE <<[ok |-> FALSE, text |-> <<s[i]>>]>> \o PatternScan(s, i + 1)

RECURSIVE Concat(_)
Concat(ss) == IF ss = <<>> THEN <<>> ELSE Head(ss) \o Concat(Tail(ss))

\* os.environ.get(name, default)
EnvironGet(environ, name, default) ==
  IF name \in DOMAIN environ THEN environ[name] ELSE default

\* a repl that leaves the default of the token out
InterpolateReplNoDefault(m, environ) ==
  EnvironGet(environ, IF m.name # NoMatch THEN m.name.v ELSE m.short.v, <<>>)

\* repl of _interpolate_env
InterpolateRepl(m, environ) ==
  IF m.name # NoMatch
    THEN EnvironGet(environ, m.name.v, IF m.default # NoMatch THEN m.default.v ELSE <<>>)
    ELSE EnvironGet(environ, m.short.v, <<>>)

_interpolate_env(s, environ) ==
  LET ms == PatternScan(s, 1)
  IN  Concat([k \in DOMAIN ms |->
                IF ms[k].ok THEN InterpolateRepl(ms[k], environ) ELSE ms[k].text])

(***************************************************************************)
(* Quotes, escapes, the home directory.                                    *)
(***************************************************************************)
\* the escapes table of _unescape_quoted in its order; backspace and NUL
\* are the characters "BS" and "NUL"
Escapes ==
  << <<<<"\\","\\">>, <<"\\">>>>, <<<<"\\","\"">>, <<"\"">>>>, <<<<"\\","'">>, <<"'">>>>,
     <<<<"\\","n">>, <<"\n">>>>, <<<<"\\","r">>, <<"\r">>>>, <<<<"\\","t">>, <<"\t">>>>,
     <<<<"\\","b">>, <<"BS">>>>, <<<<"\\","f">>, <<"\f">>>>, <<<<"\\","0">>, <<"NUL">>>> >>

RECURSIVE UnescapeFrom(_, _)
UnescapeFrom(s, k) ==
  IF k > Len(Escapes) THEN s
  ELSE UnescapeFrom(Replace(s, Escapes[k][1], Escapes[k][2]), k + 1)

_unescape_quoted(s) == UnescapeFrom(s, 1)

\* <<s, was_quoted>>
_strip_matching_quotes(s) ==
  IF Len(s) >= 2 /\ s[1] = s[Len(s)] /\ s[1] \in {"\"", "'"}
    THEN <<SubSeq(s, 2, Len(s) - 1), TRUE>>
    ELSE <<s, FALSE>>

\* the invoking user's home directory
HomeDir == <<"/", "h">>

\* os.path.expanduser(s) for an s that starts with "~/" or "~\": only "~/"
\* names the user's home on POSIX
ExpandUser(s) == IF StartsWith(s, <<"~", "/">>) THEN HomeDir \o Tail(s) ELSE s

(***************************************************************************)
(* json.loads, for text without \u escapes.                                *)
(***************************************************************************)
NaN == [t |-> "float", sgn |-> 1, mant |-> 0, exp |-> 0, inf |-> FALSE, nan |-> TRUE]

JsonWs == {" ", "\t", "\n", "\r"}

\* the characters a JSON string may not hold unescaped
ControlChars == {"\t", "\n", "\r", "\f", "BS", "NUL"}

JsonEscapes ==
  { <<"\"", "\"">>, <<"\\", "\\">>, <<"/", "/">>, <<"b", "BS">>, <<"f", "\f">>,
    <<"n", "\n">>, <<"r", "\r">>, <<"t", "\t">> }

JsonFail == [ok |-> FALSE]

JsonOk(v, next) == [ok |-> TRUE, v |-> v, next |-> next]

SkipWs(s, i) == i + RunLen(s, i, JsonWs)

\* the string whose opening quote is before position i
RECURSIVE JsonString(_, _, _)
JsonString(s, i, acc) ==
  IF i > Len(s) THEN JsonFail
  ELSE IF s[i] = "\"" THEN JsonOk(PyStr(acc), i + 1)
  ELSE IF s[i] = "\\"
    THEN IF i + 1 <= Len(s) /\ \E e \in JsonEscapes : e[1] = s[i + 1]
           THEN JsonString(s, i + 2,
                           Append(acc, (CHOOSE e \in JsonEscapes : e[1] = s[i + 1])[2]))
           ELSE JsonFail
  ELSE IF s[i] \in ControlChars THEN JsonFail
  ELSE JsonString(s, i + 1, Append(acc, s[i]))

\* NUMBER_RE.match(s, i): (-?(?:0|[1-9]\d*))(\.\d+)?([eE][-+]?\d+)?
JsonNumber(s, i) ==
  LET neg == s[i] = "-"
      j == IF neg THEN i + 1 ELSE i
      ni == IF j > Len(s) THEN 0 ELSE IF s[j] = "0" THEN 1 ELSE RunLen(s, j, Digits)
      nf == IF j + ni <= Len(s) /\ s[j + ni] = "." THEN RunLen(s, j + ni + 1, Digits) ELSE 0
      p == j + ni + (IF nf >= 1 THEN 1 + nf ELSE 0)
      hasE == p <= Len(s) /\ s[p] \in {"e", "E"}
      esign == hasE /\ p + 1 <= Len(s) /\ s[p + 1] \in {"+", "-"}
      es == p + 1 + (IF esign THEN 1 ELSE 0)
      ne == IF hasE THEN RunLen(s, es, Digits) ELSE 0
      ex == IF ne >= 1
              THEN (IF esign /\ s[p + 1] = "-" THEN -1 ELSE 1) * DecVal(Slice(s, es, es + ne))
              ELSE 0
      mant == DecVal(Slice(s, j, j + ni) \o Slice(s, j + ni + 1, p))
      sgn == IF neg THEN -1 ELSE 1
  IN  IF ni = 0 THEN JsonFail
      ELSE IF nf = 0 /\ ne = 0 THEN JsonOk(PyInt(sgn * mant), j + ni)
      ELSE JsonOk(PyFloat(sgn, mant, ex - nf), IF ne >= 1 THEN es + ne ELSE p)

\* dict[key] = value
DictSet(items, key, value) ==
  IF \E k \in DOMAIN items : items[k][1] = key
    THEN [k \in DOMAIN items |-> IF items[k][1] = key THEN <<key, value>> ELSE items[k]]
    ELSE Append(items, <<key, value>>)

Word(s, i, w) == OccursAt(s, w, i)

RECURSIVE JsonValue(_, _)
RECURSIVE JsonArray(_, _, _)
RECURSIVE JsonObject(_, _, _)

\* scan_once(s, i)
JsonValue(s, i) ==
  IF i > Len(s) THEN JsonFail
  ELSE IF s[i] = "\"" THEN JsonString(s, i + 1, <<>>)
  ELSE IF s[i] = "{"
    THEN IF SkipWs(s, i + 1) <= Len(s) /\ s[SkipWs(s, i + 1)] = "}"
           THEN JsonOk(PyDict(<<>>), SkipWs(s, i + 1) + 1)
           ELSE JsonObject(s, SkipWs(s, i + 1), <<>>)
  ELSE IF s[i] = "["
    THEN IF SkipWs(s, i + 1) <= Len(s) /\ s[SkipWs(s, i + 1)] = "]"
           THEN JsonOk(PyList(<<>>), SkipWs(s, i + 1) + 1)
           ELSE JsonArray(s, SkipWs(s, i + 1), <<>>)
  ELSE IF Word(s, i, <<"n","u","l","l">>) THEN JsonOk(None, i + 4)
  ELSE IF Word(s, i, <<"t","r","u","e">>) THEN JsonOk(PyBool(TRUE), i + 4)
  ELSE IF Word(s, i, <<"f","a","l","s","e">>) THEN JsonOk(PyBool(FALSE), i + 5)
  ELSE IF JsonNumber(s, i).ok THEN JsonNumber(s, i)
  ELSE IF Word(s, i, <<"N","a","N">>) THEN JsonOk(NaN, i + 3)
  ELSE IF Word(s, i, <<"I","n","f","i","n","i","t","y">>) THEN JsonOk(Inf(1), i + 8)
  ELSE IF Word(s, i, <<"-","I","n","f","i","n","i","t","y">>) THEN JsonOk(Inf(-1), i + 9)
  ELSE JsonFail

\* the elements of an array from position i, after the elements acc
JsonArray(s, i, acc) ==
  LET e == JsonValue(s, i)
      j == SkipWs(s, e.next)
  IN  IF ~e.ok \/ j > Len(s) THEN JsonFail
      ELSE IF s[j] = "]" THEN JsonOk(PyList(Append(acc, e.v)), j + 1)
      ELSE IF s[j] = "," THEN JsonArray(s, SkipWs(s, j + 1), Append(acc, e.v))
      ELSE JsonFail

\* the members of an object from position i, after the members acc
JsonObject(s, i, acc) ==
  LET k == IF i <= Len(s) /\ s[i] = "\"" THEN JsonString(s, i + 1, <<>>) ELSE JsonFail
      c == SkipWs(s, k.next)
      e == JsonValue(s, SkipWs(s, c + 1))
      j == SkipWs(s, e.next)
  IN  IF ~k.ok \/ c > Len(s) \/ s[c] # ":" THEN JsonFail
      ELSE IF ~e.ok \/ j > Len(s) THEN JsonFail
      ELSE IF s[j] = "}" THEN JsonOk(PyDict(DictSet(acc, k.v, e.v)), j + 1)
      ELSE IF s[j] = ","
        THEN JsonObject(s, SkipWs(s, j + 1), DictSet(acc, k.v, e.v))
      ELSE JsonFail

\* json.loads(val), NoMatch for any exception; a matched value is wrapped,
\* since a parsed null is a match
_try_json(val) ==
  LET r == JsonValue(val, SkipWs(val, 1))
  IN  IF r.ok /\ SkipWs(val, r.next) = Len(val) + 1
        THEN [t |-> "json", v |-> r.v]
        ELSE NoMatch

(***************************************************************************)
(* str() and repr().                                                       *)
(***************************************************************************)
\* ", ".join(parts)
RECURSIVE Join(_)
Join(parts) ==
  IF parts = <<>> THEN <<>>
  ELSE IF Len(parts) = 1 THEN parts[1]
  ELSE parts[1] \o <<",", " ">> \o Join(Tail(parts))

\* repr of one character of a str inside the quote q
ReprChar(c, q) ==
  CASE c = "\\" -> <<"\\", "\\">>
    [] c = "\n" -> <<"\\", "n">>
    [] c = "\r" -> <<"\\", "r">>
    [] c = "\t" -> <<"\\", "t">>
    [] c = "\f" -> <<"\\", "x", "0", "c">>
    [] c = "BS" -> <<"\\", "x", "0", "8">>
    [] c = "NUL" -> <<"\\", "x", "0", "0">>
    [] c = q -> <<"\\", q>>
    [] OTHER -> <<c>>

\* repr(str): double quotes only for a text with ' and without "
StrRepr(s) ==
  LET q == IF Contains(s, <<"'">>) /\ ~Contains(s, <<"\"">>) THEN "\"" ELSE "'"
  IN  <<q>> \o Concat([i \in DOMAIN s |-> ReprChar(s[i], q)]) \o <<q>>

RECURSIVE Repr(_)
Repr(x) ==
  CASE x.t = "None" -> <<"N","o","n","e">>
    [] x.t = "bool" -> IF x.v THEN <<"T","r","u","e">> ELSE <<"F","a","l","s","e">>
    [] x.t = "int" -> IntStr(x.v)
    [] x.t = "float" -> IF "nan" \in DOMAIN x THEN <<"n","a","n">> ELSE FloatStr(x)
    [] x.t = "str" -> StrRepr(x.v)
    [] x.t = "list" -> <<"[">> \o Join([i \in DOMAIN x.v |-> Repr(x.v[i])]) \o <<"]">>
    [] x.t = "dict" ->
         <<"{">> \o Join([i \in DOMAIN x.v |->
                            Repr(x.v[i][1]) \o <<":", " ">> \o Repr(x.v[i][2])])
         \o <<"}">>

\* str(x)
ToStr(x) == IF x.t = "str" THEN x.v ELSE Repr(x)

(***************************************************************************)
(* normalize.                                                              *)
(***************************************************************************)
\* the enum argument when no allow-set is given
NoEnum == [t |-> "None"]

\* the keyword arguments' defaults
DefaultOptions ==
  [ coerce_empty_to_none |-> TRUE, coerce_null_strings |-> TRUE,
    parse_booleans |-> TRUE, parse_numbers |-> TRUE, parse_json |-> TRUE,
    parse_lists |-> TRUE, list_separators |-> << <<",">> >>,
    strip_quotes |-> TRUE, unescape_in_quotes |-> TRUE, interpolate_env |-> TRUE,
    expand_user |-> TRUE, parse_duration |-> TRUE, parse_bytesize |-> TRUE,
    percent_mode |-> "none", lowercase_strings |-> FALSE, enum |-> NoEnum ]

\* the text after strip and interpolation
Interpolated(value, o, environ) ==
  LET s == Strip(value)
  IN  IF o.interpolate_env /\ Contains(s, <<"$">>) THEN _interpolate_env(s, environ) ELSE s

\* the working text s and worked_from_quotes: quotes, escapes, home directory
Unquoted(s0, o) ==
  LET q == IF o.strip_quotes THEN _strip_matching_quotes(s0) ELSE <<s0, FALSE>>
      s1 == IF q[2] /\ o.unescape_in_quotes THEN _unescape_quoted(q[1]) ELSE q[1]
      s2 == IF o.expand_user
               /\ (StartsWith(s1, <<"~", "/">>) \/ StartsWith(s1, <<"~", "\\">>))
              THEN ExpandUser(s1) ELSE s1
  IN  [s |-> s2, worked_from_quotes |-> q[2]]

\* the percent branch: float(num_str) raises for a prefixed numeral that
\* _try_number accepted
PercentStage(s, o) ==
  LET num_str == Strip(SubSeq(s, 1, Len(s) - 1))
      ok == _try_number(num_str)
      num == IF ok.t = "int" THEN IntToFloat(ok.v) ELSE ok
  IN  IF ok = NoMatch THEN NoMatch
      ELSE IF Prefixed(num_str, "x") \/ Prefixed(num_str, "b") \/ Prefixed(num_str, "o")
        THEN Raise("ValueError")
      ELSE IF o.percent_mode = "fraction" THEN FloatDivPow10(num, 2)
      ELSE num

\* the first separator of list_separators that occurs in s
FirstSep(s, seps) == seps[Min({k \in DOMAIN seps : Contains(s, seps[k])})]

\* the first exception among the items, if any
FirstRaise(items) == items[Min({k \in DOMAIN items : items[k].t = "raise"})]

\* the enum check applied to strings only
EnumCheckStrOnly(result, o) ==
  IF o.enum # NoEnum /\ result.t = "str" /\ result.v \notin o.enum.v
    THEN Raise("ValueError")
    ELSE result

\* the enum check at the end of normalize
EnumCheck(result, o) ==
  IF o.enum # NoEnum /\ result # None /\ ToStr(result) \notin o.enum.v
    THEN Raise("ValueError")
    ELSE result

RECURSIVE normalize(_, _, _)

\* the parts of s around its first separator; s itself without one
SplitParts(s, sep) == IF sep # <<>> THEN Split(s, sep) ELSE <<s>>

\* the keyword arguments with list splitting left on for the parts
ItemOptionsSplitting(o) ==
  [o EXCEPT !.enum = NoEnum, !.list_separators = << <<",">> >>]

\* the keyword arguments the list stage hands to normalize for a part:
\* parse_lists=False, enum=None, list_separators left at its default
ItemOptions(o) ==
  [o EXCEPT !.parse_lists = FALSE, !.enum = NoEnum, !.list_separators = << <<",">> >>]

\* the parts normalized one by one, as the list stage normalizes them
ListItems(raw, o, environ) ==
  [k \in DOMAIN raw |-> normalize(PyStr(Strip(raw[k])), ItemOptions(o), environ)]

\* the list of the normalized parts; a part that raises ends the call
ListResult(items) ==
  IF \E k \in DOMAIN items : items[k].t = "raise" THEN FirstRaise(items)
  ELSE PyList(items)

\* the list stage
ListStage(s, o, environ) ==
  IF o.parse_lists /\ \E k \in DOMAIN o.list_separators :
                        Contains(s, o.list_separators[k])
    THEN ListResult(ListItems(SplitParts(s, FirstSep(s, o.list_separators)),
                              o, environ))
    ELSE NoMatch

\* the null and boolean stages on the lowered working text
NullStage(s_lower, o) ==
  IF o.coerce_null_strings /\ s_lower \in _NULL_SENTINELS THEN None ELSE NoMatch

BooleanStage(s_lower, o) ==
  IF o.parse_booleans /\ s_lower \in (_TRUE_SENTINELS \cup _FALSE_SENTINELS)
    THEN PyBool(s_lower \in _TRUE_SENTINELS) ELSE NoMatch

\* a JSON stage that parses the working text in every case
JsonStageOfWorking(value, w, o) ==
  IF o.parse_json
     /\ (StartsWith(w.s, <<"{">>) \/ StartsWith(w.s, <<"[">>) \/ w.worked_from_quotes)
    THEN _try_json(w.s)
    ELSE NoMatch

\* the JSON stage: the working text, or the stripped input when the working
\* text came out of quotes
JsonStage(value, w, o) ==
  IF o.parse_json
     /\ (StartsWith(w.s, <<"{">>) \/ StartsWith(w.s, <<"[">>) \/ w.worked_from_quotes)
    THEN _try_json(IF ~w.worked_from_quotes THEN w.s ELSE Strip(value))
    ELSE NoMatch

\* what each stage makes of the working text when it is enabled and the
\* text matches it, NoMatch otherwise
StageResults(value, w, o, environ) ==
  [ null |-> NullStage(Lower(w.s), o),
    boolean |-> BooleanStage(Lower(w.s), o),
    percent |-> IF o.percent_mode # "none" /\ EndsWith(w.s, <<"%">>)
                  THEN PercentStage(w.s, o) ELSE NoMatch,
    duration |-> IF o.parse_duration THEN _parse_duration_to_seconds(w.s) ELSE NoMatch,
    bytesize |-> IF o.parse_bytesize THEN _parse_bytes(w.s) ELSE NoMatch,
    number |-> IF o.parse_numbers THEN _try_number(w.s) ELSE NoMatch,
    json |-> JsonStage(value, w, o),
    list |-> ListStage(w.s, o, environ),
    string |-> PyStr(w.s) ]

\* the chain of stage tests with the boolean test moved behind the numeric
PipelineNumberFirst(r) ==
  IF r.null # NoMatch THEN [stage |-> "null", result |-> r.null]
  ELSE IF r.percent # NoMatch THEN [stage |-> "percent", result |-> r.percent]
  ELSE IF r.duration # NoMatch THEN [stage |-> "duration", result |-> r.duration]
  ELSE IF r.bytesize # NoMatch THEN [stage |-> "bytesize", result |-> r.bytesize]
  ELSE IF r.number # NoMatch THEN [stage |-> "number", result |-> r.number]
  ELSE IF r.boolean # NoMatch THEN [stage |-> "boolean", result |-> r.boolean]
  ELSE IF r.json # NoMatch THEN [stage |-> "json", result |-> r.json.v]
  ELSE IF r.list # NoMatch THEN [stage |-> "list", result |-> r.list]
  ELSE [stage |-> "string", result |-> r.string]

\* the chain of stage tests of normalize over the stage results r:
\* [stage, result] of the first stage with a result
Pipeline(r) ==
  IF r.null # NoMatch THEN [stage |-> "null", result |-> r.null]
  ELSE IF r.boolean # NoMatch THEN [stage |-> "boolean", result |-> r.boolean]
  ELSE IF r.percent # NoMatch THEN [stage |-> "percent", result |-> r.percent]
  ELSE IF r.duration # NoMatch THEN [stage |-> "duration", result |-> r.duration]
  ELSE IF r.bytesize # NoMatch THEN [stage |-> "bytesize", result |-> r.bytesize]
  ELSE IF r.number # NoMatch THEN [stage |-> "number", result |-> r.number]
  ELSE IF r.json # NoMatch THEN [stage |-> "json", result |-> r.json.v]
  ELSE IF r.list # NoMatch THEN [stage |-> "list", result |-> r.list]
  ELSE [stage |-> "string", result |-> r.string]

\* [stage, result] for the stripped and interpolated text s
ResolveText(value, s, o, environ) ==
  IF s = <<>>
    THEN [stage |-> "empty",
          result |-> IF o.coerce_empty_to_none THEN None ELSE PyStr(<<>>)]
    ELSE Pipeline(StageResults(value, Unquoted(s, o), o, environ))

\* [stage, result] of normalize before lowercasing and the enum check
Resolve(value, o, environ) ==
  IF value = None THEN [stage |-> "none", result |-> None]
  ELSE IF value.t # "str" THEN [stage |-> "passthrough", result |-> value]
  ELSE ResolveText(value.v, Interpolated(value.v, o, environ), o, environ)

\* the stage of normalize that produced the result
StageOf(value, o, environ) == Resolve(value, o, environ).stage

\* lowercase_strings on a string result
Lowered(result, o) ==
  IF result.t = "str" /\ o.lowercase_strings THEN PyStr(Lower(result.v)) ELSE result

\* the end of normalize: a raise leaves at once, a result passes the
\* lowercase and enum steps
Finish(result, o) ==
  IF result.t = "raise" THEN result ELSE EnumCheck(Lowered(result, o), o)

\* a normalize that hands every value to the lowercase and enum steps
normalize_then_check(value, o, environ) == Finish(Resolve(value, o, environ).result, o)

normalize(value, o, environ) ==
  IF value # None /\ value.t # "str" THEN value
  ELSE Finish(Resolve(value, o, environ).result, o)

\* the number of calls of normalize that are open at once while
\* normalize(value, **o) runs: the call itself, and below it the deepest of
\* the calls the list stage makes for the parts
RECURSIVE Depth(_, _, _)
PartsDepth(raw, o, environ) ==
  Max({Depth(PyStr(Strip(raw[k])), ItemOptions(o), environ) : k \in DOMAIN raw})

\* the depth of a call that splits the working text s
SplitDepth(s, o, environ) ==
  1 + PartsDepth(SplitParts(s, FirstSep(s, o.list_separators)), o, environ)

Depth(value, o, environ) ==
  IF StageOf(value, o, environ) = "list"
    THEN SplitDepth(Unquoted(Interpolated(value.v, o, environ), o).s, o, environ)
    ELSE 1

(***************************************************************************)
(* Sources: dotenv files, the dotenv cache, the process-wide configuration.*)
(* A directory is its resolved path; a file name is the sequence of its    *)
(* characters; a dotenv file is the mapping dotenv_values reads from it.   *)
(***************************************************************************)
\* the names _detect_app_env reads, in its order
AppEnvNames ==
  << <<"E","N","V">>, <<"A","P","P","_","E","N","V">>, <<"F","L","A","S","K","_","E","N","V">>,
     <<"D","J","A","N","G","O","_","E","N","V">>, <<"P","Y","_","E","N","V">>,
     <<"N","O","D","E","_","E","N","V">> >>

_detect_app_env(environ) ==
  LET set == {k \in DOMAIN AppEnvNames :
                AppEnvNames[k] \in DOMAIN environ /\ environ[AppEnvNames[k]] # <<>>}
  IN  IF set = {} THEN None ELSE PyStr(Lower(environ[AppEnvNames[Min(set)]]))

\* low to high precedence
_candidate_env_filenames(env_name) ==
  LET dotenv == <<".","e","n","v">>
      local == <<".","l","o","c","a","l">>
      named == env_name # None /\ env_name.v # <<>>
  IN  <<dotenv>>
      \o (IF named THEN <<dotenv \o <<".">> \o env_name.v>> ELSE <<>>)
      \o <<dotenv \o local>>
      \o (IF named THEN <<dotenv \o <<".">> \o env_name.v \o local>> ELSE <<>>)

\* the working directory and its parents, nearest first
_default_search_dirs == <<"child", "parent">>

\* DotenvSearchPlan()
DefaultPlan(environ) ==
  [ search_dirs |-> _default_search_dirs, env_name |-> _detect_app_env(environ),
    filenames |-> None, stop_at_first_found_dir |-> TRUE ]

\* self.filenames or _candidate_env_filenames(self.env_name)
Candidates(plan) ==
  IF plan.filenames # None /\ plan.filenames.v # <<>>
    THEN plan.filenames.v
    ELSE _candidate_env_filenames(plan.env_name)

\* the candidates that exist in one directory, in candidate order
FoundIn(base, candidates, files) ==
  SelectSeq([k \in DOMAIN candidates |-> <<base, candidates[k]>>],
            LAMBDA p : p \in DOMAIN files)

RECURSIVE ResolveFrom(_, _, _)
ResolveFrom(plan, k, files) ==
  IF k > Len(plan.search_dirs) THEN <<>>
  ELSE LET here == FoundIn(plan.search_dirs[k], Candidates(plan), files)
       IN  IF plan.stop_at_first_found_dir /\ here # <<>>
             THEN here
             ELSE here \o ResolveFrom(plan, k + 1, files)

\* DotenvSearchPlan.resolve_files
resolve_files(plan, files) == ResolveFrom(plan, 1, files)

\* the key of a plan in _DOTENV_CACHE
CacheKey(plan) == <<plan.search_dirs, Candidates(plan)>>

\* merged: each file's items written over those of the files before it
RECURSIVE Merge(_, _)
Merge(paths, files) ==
  IF paths = <<>> THEN <<>>
  ELSE files[paths[Len(paths)]] @@ Merge(SubSeq(paths, 1, Len(paths) - 1), files)

\* the merged mapping returned and stored under the key of its plan
Loaded(key, merged, cache) == [map |-> merged, cache |-> (key :> merged) @@ cache]

\* a load that reads the files at every call and never looks in the cache
_load_dotenv_map_uncached(plan, cache, files, installed) ==
  Loaded(CacheKey(plan),
         IF installed.dotenv THEN Merge(resolve_files(plan, files), files) ELSE <<>>,
         cache)

\* _load_dotenv_map(plan): [map, cache], the mapping returned and the
\* cache afterwards
_load_dotenv_map(plan, cache, files, installed) ==
  IF CacheKey(plan) \in DOMAIN cache
    THEN [map |-> cache[CacheKey(plan)], cache |-> cache]
    ELSE Loaded(CacheKey(plan),
                IF installed.dotenv THEN Merge(resolve_files(plan, files), files) ELSE <<>>,
                cache)

\* _GlobalConfig(plan=DotenvSearchPlan())
DefaultConfig(environ) ==
  [ plan |-> DefaultPlan(environ), prefer_os_over_dotenv |-> TRUE,
    use_decouple_if_available |-> TRUE ]

\* the value of _GLOBAL after _ensure_global()
_ensure_global(global, environ) == IF global = None THEN DefaultConfig(environ) ELSE global

\* the keyword arguments of configure and using: each None when not given
NoOverrides ==
  [ search_dirs |-> None, env_name |-> None, filenames |-> None,
    stop_at_first_found_dir |-> None, prefer_os_over_dotenv |-> None,
    use_decouple_if_available |-> None ]

Given(cur, arg) == IF arg # None THEN arg.v ELSE cur

\* the _GLOBAL configure(**kw) assigns
configure(global, kw, environ) ==
  LET cur == _ensure_global(global, environ)
  IN  [ plan |->
          [ search_dirs |-> Given(cur.plan.search_dirs, kw.search_dirs),
            env_name |-> IF kw.env_name # None THEN kw.env_name ELSE cur.plan.env_name,
            filenames |-> IF kw.filenames # None THEN kw.filenames ELSE cur.plan.filenames,
            stop_at_first_found_dir |->
              Given(cur.plan.stop_at_first_found_dir, kw.stop_at_first_found_dir) ],
        prefer_os_over_dotenv |-> Given(cur.prefer_os_over_dotenv, kw.prefer_os_over_dotenv),
        use_decouple_if_available |->
          Given(cur.use_decouple_if_available, kw.use_decouple_if_available) ]

\* using(**kw) up to its yield: the prev it keeps and the _GLOBAL it assigns
using_enter(global, kw, environ) ==
  LET prev == _ensure_global(global, environ)
  IN  [prev |-> prev, global |-> configure(prev, kw, environ)]

\* a restore of the prev of the outermost open block
using_finally_outermost(prevs) == prevs[1]

\* the finally of using: the prev of the block that exits, the innermost of
\* the open ones
using_finally(prevs) == prevs[Len(prevs)]

\* the value no source has (_SENTINEL)
_SENTINEL == [t |-> "sentinel"]

\* _raw_from_decouple(key): decouple's config(key) reads the process
\* environment, then its own settings file; an undefined key raises in it
_raw_from_decouple(key, environ, installed) ==
  IF ~installed.decouple THEN _SENTINEL
  ELSE IF key \in DOMAIN environ THEN PyStr(environ[key])
  ELSE IF key \in DOMAIN installed.decouple_file THEN PyStr(installed.decouple_file[key])
  ELSE _SENTINEL

\* the dotenv mapping ld.map, then the process environment, then default
DotenvThenOs(key, default, ld, environ) ==
  IF key \in DOMAIN ld.map THEN [raw |-> PyStr(ld.map[key]), cache |-> ld.cache]
  ELSE [raw |-> IF key \in DOMAIN environ THEN PyStr(environ[key]) ELSE default,
        cache |-> ld.cache]

\* the process environment before the dotenv mapping whatever g prefers
_raw_from_os_then_dotenv(key, default, g, environ, cache, files, installed) ==
  IF key \in DOMAIN environ
    THEN [raw |-> PyStr(environ[key]), cache |-> cache]
    ELSE DotenvThenOs(key, default, _load_dotenv_map(g.plan, cache, files, installed),
                      environ)

\* _raw_from_dotenv_or_os(key, default, g): [raw, cache]
_raw_from_dotenv_or_os(key, default, g, environ, cache, files, installed) ==
  IF g.prefer_os_over_dotenv /\ key \in DOMAIN environ
    THEN [raw |-> PyStr(environ[key]), cache |-> cache]
    ELSE DotenvThenOs(key, default, _load_dotenv_map(g.plan, cache, files, installed),
                      environ)

\* the raw value of the layered sources for a key: [raw, cache]
LayeredRaw(key, default, g, environ, cache, files, installed) ==
  IF g.use_decouple_if_available /\ installed.decouple
     /\ _raw_from_decouple(key, environ, installed) # _SENTINEL
    THEN [raw |-> _raw_from_decouple(key, environ, installed), cache |-> cache]
    ELSE _raw_from_dotenv_or_os(key, default, g, environ, cache, files, installed)

\* normalize on the raw value r.raw of the sources: [ret, cache]
Normalized(r, o, environ) == [ret |-> normalize(r.raw, o, environ), cache |-> r.cache]

\* get_env(key, default, normalize_kwargs=o): [ret, cache]
get_env(key, default, o, global, environ, cache, files, installed) ==
  Normalized(LayeredRaw(key, default, _ensure_global(global, environ), environ, cache,
                        files, installed),
             o, environ)

\* the text repl returns for the raw value r.raw: [text, cache]
ReplText(r) == [text |-> IF r.raw = _SENTINEL THEN <<>> ELSE ToStr(r.raw), cache |-> r.cache]

\* repl of _expand_env_from_sources for the match m: [text, cache]
ExpandRepl(m, g, environ, cache, files, installed) ==
  ReplText(LayeredRaw(IF m.name # NoMatch THEN m.name.v ELSE m.short.v,
                      IF m.name # NoMatch /\ m.default # NoMatch THEN m.default
                      ELSE _SENTINEL,
                      g, environ, cache, files, installed))

\* text before the text of rest
Prepend(text, rest) == [text |-> text \o rest.text, cache |-> rest.cache]

\* _ENV_VAR_PATTERN.sub(repl, s) from the k-th item of the scan on
RECURSIVE ExpandFrom(_, _, _, _, _, _, _)

\* the replacement r of the k-th item, then the items after it
ExpandAfter(ms, k, r, g, environ, files, installed) ==
  Prepend(r.text, ExpandFrom(ms, k + 1, g, environ, r.cache, files, installed))

ExpandFrom(ms, k, g, environ, cache, files, installed) ==
  IF k > Len(ms) THEN [text |-> <<>>, cache |-> cache]
  ELSE IF ~ms[k].ok
    THEN Prepend(ms[k].text, ExpandFrom(ms, k + 1, g, environ, cache, files, installed))
  ELSE ExpandAfter(ms, k, ExpandRepl(ms[k], g, environ, cache, files, installed),
                   g, environ, files, installed)

\* _expand_env_from_sources(s): [text, cache]
_expand_env_from_sources(s, global, environ, cache, files, installed) ==
  ExpandFrom(PatternScan(s, 1), 1, _ensure_global(global, environ), environ, cache, files,
             installed)

\* the dict or list rebuilt from its processed items; an item that raises
\* ends the call
Rebuilt(obj, r) ==
  [ret |-> IF \E k \in DOMAIN r.items : r.items[k].t = "raise"
             THEN FirstRaise(r.items)
             ELSE [t |-> obj.t, v |-> IF obj.t = "list" THEN r.items
                                      ELSE [k \in DOMAIN obj.v |->
                                              <<obj.v[k][1], r.items[k]>>]],
   cache |-> r.cache]

\* a string leaf: normalize on the expanded text e.text
Leaf(e, o, environ) == [ret |-> normalize(PyStr(e.text), o, environ), cache |-> e.cache]

\* normalize_config(obj, **o): [ret, cache]
RECURSIVE normalize_config(_, _, _, _, _, _, _)
RECURSIVE ConfigItems(_, _, _, _, _, _, _, _)
normalize_config(obj, o, global, environ, cache, files, installed) ==
  IF obj.t \in {"dict", "list"}
    THEN Rebuilt(obj, ConfigItems(obj.v, obj.t, o, global, environ, cache, files, installed))
  ELSE IF obj.t = "str"
    THEN Leaf(_expand_env_from_sources(obj.v, global, environ, cache, files, installed),
              o, environ)
  ELSE [ret |-> obj, cache |-> cache]

\* the item r.ret behind the items of rest
ConsBehind(r, rest) == [items |-> rest.items \o <<r.ret>>, cache |-> rest.cache]

\* the item r.ret before the items of rest
Cons(r, rest) == [items |-> <<r.ret>> \o rest.items, cache |-> rest.cache]

\* the processed first item r, then the items after it unless r raises
ItemsAfter(xs, kind, r, o, global, environ, files, installed) ==
  IF r.ret.t = "raise"
    THEN [items |-> <<r.ret>> \o [k \in DOMAIN Tail(xs) |-> None], cache |-> r.cache]
    ELSE Cons(r, ConfigItems(Tail(xs), kind, o, global, environ, r.cache, files, installed))

\* the values of a dict or the items of a list processed in order, up to
\* the first that raises: [items, cache]
ConfigItems(xs, kind, o, global, environ, cache, files, installed) ==
  IF xs = <<>> THEN [items |-> <<>>, cache |-> cache]
  ELSE ItemsAfter(xs, kind,
                  normalize_config(IF kind = "dict" THEN xs[1][2] ELSE xs[1],
                                   o, global, environ, cache, files, installed),
                  o, global, environ, files, installed)

(***************************************************************************)
(* Convenience casts.                                                      *)
(***************************************************************************)
\* the text s without the underscores that group its digits: int() and
\* float() accept one underscore between two digits
Ungrouped(s) ==
  LET kept == { i \in DOMAIN s :
                  ~(/\ s[i] = "_" /\ 1 < i /\ i < Len(s)
                    /\ IsDigit(s[i - 1]) /\ IsDigit(s[i + 1])) }
  IN  [k \in 1..Cardinality(kept) |->
         s[CHOOSE i \in kept : Cardinality({j \in kept : j <= i}) = k]]

\* float(v) of env_float; a text is read as float() reads a decimal literal,
\* "inf" or "nan" within optional whitespace; the except turns every failure
\* into ValueError
FloatOf(v) ==
  CASE v.t = "bool" -> IntToFloat(IF v.v THEN 1 ELSE 0)
    [] v.t = "int" -> IntToFloat(v.v)
    [] v.t = "float" -> v
    [] v.t = "str" ->
         LET s == Lower(Strip(v.v))
             u == IF s # <<>> /\ Head(s) \in {"+", "-"} THEN Tail(s) ELSE s
         IN  IF u \in {<<"i","n","f">>, <<"i","n","f","i","n","i","t","y">>}
               THEN Inf(IF Head(s) = "-" THEN -1 ELSE 1)
             ELSE IF u = <<"n","a","n">> THEN NaN
             ELSE IF FloatLiteral(Ungrouped(s)) # NoMatch
               THEN FloatLiteral(Ungrouped(s))
             ELSE Raise("ValueError")
    [] OTHER -> Raise("ValueError")

\* int(str(v).strip()) of env_int, for a v that is no int and no whole
\* float: a decimal integer literal, else ValueError
IntOfStr(s) ==
  LET u == Ungrouped(s)
  IN  IF IsIntLiteral(u)
        THEN PyInt((IF Head(u) = "-" THEN -1 ELSE 1)
                   * DecVal(IF Head(u) \in {"+", "-"} THEN Tail(u) ELSE u))
        ELSE Raise("ValueError")

\* the float v has no fractional part (v.is_integer())
IsInteger(v) == "nan" \notin DOMAIN v /\ ~v.inf /\ v.exp >= 0

\* what env_int makes of the value v of get_env
IntOf(v) ==
  IF v.t \in {"None", "raise", "int", "bool"} THEN v
  ELSE IF v.t = "float" /\ IsInteger(v) THEN FloatToInt(v)
  ELSE IntOfStr(Strip(ToStr(v)))

\* what env_bool makes of the value v of get_env
BoolOf(v) ==
  IF v.t \in {"None", "raise", "bool"} THEN v
  ELSE IF Lower(Strip(ToStr(v))) \in _TRUE_SENTINELS THEN PyBool(TRUE)
  ELSE IF Lower(Strip(ToStr(v))) \in _FALSE_SENTINELS THEN PyBool(FALSE)
  ELSE Raise("ValueError")

\* the default a typed wrapper hands to get_env: None, or the text of d
BoolDefault(d) ==
  IF d = None THEN None
  ELSE PyStr(IF d.v THEN <<"t","r","u","e">> ELSE <<"f","a","l","s","e">>)

StrDefault(d) == IF d = None THEN None ELSE PyStr(ToStr(d))

\* the result r of get_env with its value cast by a wrapper
CastBool(r) == [ret |-> BoolOf(r.ret), cache |-> r.cache]

CastInt(r) == [ret |-> IntOf(r.ret), cache |-> r.cache]

CastFloat(r) ==
  [ret |-> IF r.ret.t \in {"None", "raise"} THEN r.ret ELSE FloatOf(r.ret),
   cache |-> r.cache]

\* the default that get_env or a cast hands on: get_env its own, env_bool
\* "true" or "false", env_int and env_float str(default)
DefaultOf(name, default) ==
  CASE name = "env_bool" -> BoolDefault(default)
    [] name \in {"env_int", "env_float"} -> StrDefault(default)
    [] OTHER -> default

\* what get_env or a cast returns, given the result r of get_env
CastOf(name, r) ==
  CASE name = "env_bool" -> CastBool(r)
    [] name = "env_int" -> CastInt(r)
    [] name = "env_float" -> CastFloat(r)
    [] OTHER -> r

(***************************************************************************)
(* State.                                                                  *)
(***************************************************************************)
VARIABLES
  op,             \* the last operation: "input" before any call
  pieces,         \* the vocabulary pieces the input text was built from
  arg,            \* the argument of the call
  opts,           \* the keyword arguments of normalize
  ret,            \* what the call returned or raised
  environ,        \* os.environ
  _GLOBAL,        \* the process-wide configuration, None before first use
  _DOTENV_CACHE,  \* cache key -> merged dotenv mapping
  files,          \* <<directory, file name>> -> the dotenv file's mapping
  installed,      \* which optional modules import, and decouple's own file
  frames,         \* thread -> the prev of each using block it is inside
  entered,        \* thread -> [config, values] at the entry of each block
  expected,       \* [config, values] at the entry of the block last exited
  changed,        \* a file or the environment was changed since the start
  calls,          \* the number of calls made to the sources and the configuration
  pc              \* thread -> where it is in its call, with the call's locals

vars ==
  << op, pieces, arg, opts, ret, environ, _GLOBAL, _DOTENV_CACHE, files, installed,
     frames, entered, expected, changed, calls, pc >>

sourceVars ==
  << _GLOBAL, _DOTENV_CACHE, files, installed, frames, entered, expected, changed, calls,
     pc >>

Threads == {"main", "t1", "t2"}

\* a thread that is in no call
Idle == [at |-> "idle"]

NothingInstalled == [dotenv |-> FALSE, decouple |-> FALSE, decouple_file |-> <<>>]

\* the sources before anything was configured or read
SourcesInit(fs, inst) ==
  /\ _GLOBAL = None
  /\ _DOTENV_CACHE = <<>>
  /\ files = fs
  /\ installed = inst
  /\ frames = [t \in Threads |-> <<>>]
  /\ entered = [t \in Threads |-> <<>>]
  /\ expected = None
  /\ changed = FALSE
  /\ calls = 0
  /\ pc = [t \in Threads |-> Idle]

SeqsUpTo(S, n) == UNION {[1..k -> S] : k \in 0..n}

\* an input text drawn piece by piece from a vocabulary
InputInit(vocabulary, n, optionSet, environSet) ==
  /\ op = "input"
  /\ pieces \in SeqsUpTo(vocabulary, n)
  /\ arg = PyStr(Concat(pieces))
  /\ opts \in optionSet
  /\ ret = NoMatch
  /\ environ \in environSet

\* one call of a function of the input that leaves the sources alone
Call(name, result) ==
  /\ op = "input"
  /\ op' = name
  /\ ret' = result
  /\ UNCHANGED << pieces, arg, opts, environ, sourceVars >>

(***************************************************************************)
(* normalize on texts of every stage, each stage switched on and off.      *)
(***************************************************************************)
NormalizeVocabulary ==
  { <<"n","i","l">>, <<"o","n">>, <<"1">>, <<"5">>, <<"0","x">>, <<".">>, <<"%">>,
    <<"s">>, <<"k">>, <<"e">>, <<",">>, <<"[">>, <<"]">>, <<"\"">> }

\* the defaults, each stage switched off alone, the percent modes
NormalizeOptions ==
  { DefaultOptions,
    [DefaultOptions EXCEPT !.percent_mode = "fraction"],
    [DefaultOptions EXCEPT !.percent_mode = "number"],
    [DefaultOptions EXCEPT !.coerce_null_strings = FALSE, !.parse_booleans = FALSE],
    [DefaultOptions EXCEPT !.parse_duration = FALSE],
    [DefaultOptions EXCEPT !.parse_bytesize = FALSE, !.percent_mode = "fraction"],
    [DefaultOptions EXCEPT !.parse_duration = FALSE, !.parse_bytesize = FALSE,
                           !.parse_numbers = FALSE],
    [DefaultOptions EXCEPT !.parse_json = FALSE],
    [DefaultOptions EXCEPT !.parse_lists = FALSE, !.strip_quotes = FALSE] }

NoEnviron == <<>>

InitNormalize ==
  /\ InputInit(NormalizeVocabulary, MaxParts, NormalizeOptions, {NoEnviron})
  /\ SourcesInit(<<>>, NothingInstalled)

Normalize == Call("normalize", normalize(arg, opts, environ))

NextNormalize == Normalize

SpecNormalize == InitNormalize /\ [][NextNormalize]_vars

\* the working text of the pipeline for the input
Working == Unquoted(Interpolated(arg.v, opts, environ), opts)

\* the order of the stages
StageOrder ==
  << "null", "boolean", "percent", "duration", "bytesize", "number", "json", "list",
     "string" >>

\* the result of the first stage, in that order, with a result among the
\* stage results r; the JSON stage wraps its result
FirstResult(r) ==
  LET matching == {n \in DOMAIN r : r[n] # NoMatch}
      first == StageOrder[Min({k \in DOMAIN StageOrder : StageOrder[k] \in matching})]
  IN  IF first = "json" THEN r[first].v ELSE r[first]

C2_NeverRaises == (op = "normalize" /\ opts.enum = NoEnum) => ret.t # "raise"

\* a bool, int or float as the number it equals in Python
NumberOf(x) ==
  IF x.t = "bool" THEN IntToFloat(IF x.v THEN 1 ELSE 0)
  ELSE IF x.t = "int" THEN IntToFloat(x.v)
  ELSE IF x.t = "float" /\ ~x.inf /\ x.mant = 0 THEN IntToFloat(0)
  ELSE x

\* C5: with the default options a valid numeric literal comes back as the
\* number it denotes
C5_NumericLiterals ==
  (op = "normalize" /\ opts = DefaultOptions /\ _try_number(arg.v) # NoMatch) =>
    NumberOf(ret) = NumberOf(_try_number(arg.v))

(***************************************************************************)
(* normalize with an enum allow-set.                                       *)
(***************************************************************************)
EnumVocabulary ==
  { <<"a">>, <<"B">>, <<"1">>, <<"5">>, <<".">>, <<"s">>, <<",">>, <<"n","i","l">> }

\* allow-sets holding strings, and the string conversions of a boolean, an
\* integer, a float and a list
EnumSets ==
  { { <<"a">>, <<"a","b">>, <<"T","r","u","e">>, <<"5">>, <<"5",".","0">>,
      <<"[","'","a","'",","," ","'","b","'","]">> },
    { <<"B">>, <<"b","a">>, <<"1","5">>, <<"N","o","n","e">>, <<"[","1",","," ","5","]">> } }

EnumOptions ==
  { [DefaultOptions EXCEPT !.enum = [t |-> "enum", v |-> e], !.lowercase_strings = l] :
      e \in EnumSets, l \in BOOLEAN }

InitEnum ==
  /\ InputInit(EnumVocabulary, MaxParts, EnumOptions, {NoEnviron})
  /\ SourcesInit(<<>>, NothingInstalled)

NextEnum == Normalize

SpecEnum == InitEnum /\ [][NextEnum]_vars

\* the value normalize resolved for the input, after the optional lowercasing
Resolved ==
  LET r == Resolve(arg, opts, environ).result
  IN  IF r.t = "str" /\ opts.lowercase_strings THEN PyStr(Lower(r.v)) ELSE r

\* C3: with an enum allow-set configured, a resolved value other than None
\* is returned when its string conversion (a string: itself) is in the
\* allow-set and raises ValueError otherwise; nothing outside the allow-set
\* is returned and None is never rejected
C3_EnumEnforced ==
  (op = "normalize" /\ opts.enum # NoEnum /\ Resolved.t # "raise") =>
    /\ Resolved = None => ret = None
    /\ (Resolved # None /\ ToStr(Resolved) \in opts.enum.v) => ret = Resolved
    /\ (Resolved # None /\ ToStr(Resolved) \notin opts.enum.v) => ret = Raise("ValueError")
    /\ ret.t # "raise" => (ret = None \/ ToStr(ret) \in opts.enum.v)

\* an integer whose string conversion is not in the allow-set is rejected
C3_Witness ==
  /\ op = "normalize" /\ opts.enum # NoEnum
  /\ Resolved.t = "int" /\ ToStr(Resolved) \notin opts.enum.v
  /\ ret = Raise("ValueError")

(***************************************************************************)
(* The duration parser, alone and inside normalize.                        *)
(***************************************************************************)
DurationVocabulary ==
  { <<"1">>, <<".","5">>, <<"h">>, <<"m">>, <<"s">>, <<" ">>, <<"X">>, <<"\"">>,
    <<"1","h">>, <<"3","0","s">> }

InitDuration ==
  /\ InputInit(DurationVocabulary, MaxLen, {DefaultOptions}, {NoEnviron})
  /\ SourcesInit(<<>>, NothingInstalled)

ParseDuration == Call("_parse_duration_to_seconds", _parse_duration_to_seconds(arg.v))

NextDuration == ParseDuration \/ Normalize

SpecDuration == InitDuration /\ [][NextDuration]_vars

\* a run of digits, or two of them around a point
IsAmount(s) ==
  \/ s # <<>> /\ \A i \in DOMAIN s : s[i] \in Digits
  \/ \E k \in 2..(Len(s) - 1) :
       /\ s[k] = "."
       /\ \A i \in DOMAIN s : i # k => s[i] \in Digits

\* the seconds of one <number><unit> token, or NoMatch
TokenSeconds(s) ==
  LET fits == {k \in DOMAIN DurationUnits :
                 /\ EndsWith(s, DurationUnits[k][1])
                 /\ IsAmount(SubSeq(s, 1, Len(s) - Len(DurationUnits[k][1])))}
      unit == DurationUnits[CHOOSE k \in fits : TRUE]
      amount == SubSeq(s, 1, Len(s) - Len(unit[1]))
      point == IF Contains(amount, <<".">>) THEN IndexOf(amount, ".") ELSE Len(amount) + 1
      digits == SubSeq(amount, 1, point - 1) \o SubSeq(amount, point + 1, Len(amount))
      places == IF point > Len(amount) THEN 0 ELSE Len(amount) - point
  IN  IF fits = {} THEN NoMatch
      ELSE FloatDivPow10(FloatMulInt(PyFloat(1, DecVal(digits), -places),
                                     unit[2]), unit[3])

\* the sum of the one or more tokens s is the concatenation of, or NoMatch
RECURSIVE TokensSum(_)
TokensSum(s) ==
  LET heads == {k \in 1..Len(s) :
                  /\ TokenSeconds(SubSeq(s, 1, k)) # NoMatch
                  /\ (k = Len(s) \/ TokensSum(SubSeq(s, k + 1, Len(s))) # NoMatch)}
      k == CHOOSE k \in heads : TRUE
  IN  IF heads = {} THEN NoMatch
      ELSE IF k = Len(s) THEN TokenSeconds(s)
      ELSE FloatAdd(TokenSeconds(SubSeq(s, 1, k)), TokensSum(SubSeq(s, k + 1, Len(s))))

\* C6: the duration parser returns the sum of the tokens for a string that
\* is the concatenation of one or more <number><unit> tokens and no match
\* for every other string, the one with no token included; normalize returns
\* no duration for a text the parser does not match
C6_DurationTokens ==
  /\ op = "_parse_duration_to_seconds" => ret = TokensSum(arg.v)
  /\ (op = "normalize" /\ Interpolated(arg.v, opts, environ) # <<>>
        /\ TokensSum(Working.s) = NoMatch)
       => /\ StageOf(arg, opts, environ) # "duration"
          /\ (arg.v \in {<<"1","h"," ","3","0","s">>, <<"1","h","3","0","s","X">>}
                => ret = arg)

(***************************************************************************)
(* The byte-size parser.  The input is a number text followed by a unit    *)
(* token.  The fractions are halves, which the float arithmetic of the     *)
(* parser holds exactly.  A product with a g or t factor is beyond the     *)
(* integers of the model checker: for those units the factor looked up is  *)
(* observed and the product is not formed.                                 *)
(***************************************************************************)
BytesVocabulary == { <<"0">>, <<"1">>, <<".","5">>, <<"-">>, <<" ">> }

\* every spelling of a unit in lower and upper case letters
Spellings(unit) ==
  { [i \in DOMAIN unit |-> IF up[i] THEN UpperChars[IndexOf(LowerChars, unit[i])] ELSE unit[i]] :
      up \in [DOMAIN unit -> BOOLEAN] }

\* the unit tokens: none, the spellings of the table keys, and some that are
\* in no table
UnitTokens ==
  UNION {Spellings(e[1]) : e \in _SIZE_UNITS_IEC}
    \cup { <<>>, <<"x">>, <<"k","i">>, <<"k","b","b">>, <<"b","k">>, <<"s","i">>, <<"K","B","s","i">> }

InitBytes ==
  /\ op = "input"
  /\ pieces \in {n \o <<u>> : n \in SeqsUpTo(BytesVocabulary, MaxParts), u \in UnitTokens}
  /\ arg = PyStr(Concat(pieces))
  /\ opts = DefaultOptions
  /\ ret = NoMatch
  /\ environ = NoEnviron
  /\ SourcesInit(<<>>, NothingInstalled)

\* the unit token of the input as _parse_bytes reads it
unit_raw == IF pieces[Len(pieces)] = <<>> THEN <<"b">> ELSE pieces[Len(pieces)]

\* the factor lookup of _parse_bytes for the unit token
LookupFactor == Call("SizeFactor", SizeFactor(unit_raw))

ParseBytes ==
  /\ LowerChar(Head(unit_raw)) \notin {"g", "t"}
  /\ Call("_parse_bytes", _parse_bytes(arg.v))

NextBytes == LookupFactor \/ ParseBytes

SpecBytes == InitBytes /\ [][NextBytes]_vars

\* the factor of a unit token by the case rule, as base^exp, or NoMatch
FactorByCase(unit) ==
  LET u == Lower(unit)
      exp == IndexOf(<<"b", "k", "m", "g", "t">>, Head(u)) - 1
      si == u \in {<<"k","b">>, <<"m","b">>, <<"g","b">>, <<"t","b">>}
      iec == u \in { <<"b">>, <<"k">>, <<"m">>, <<"g">>, <<"t">>,
                     <<"k","i","b">>, <<"m","i","b">>, <<"g","i","b">>, <<"t","i","b">> }
  IN  IF si /\ \E i \in DOMAIN unit : IsUpper(unit[i])
        THEN [t |-> "factor", base |-> 1000, exp |-> exp]
      ELSE IF si \/ iec THEN [t |-> "factor", base |-> 1024, exp |-> exp]
      ELSE NoMatch

\* a sign or none, digits, and a point with digits or none
IsSizeNumber(s) ==
  LET u == IF s # <<>> /\ Head(s) \in {"+", "-"} THEN Tail(s) ELSE s
  IN  IsAmount(u)

\* number * base^exp truncated to an integer
Truncated(number, base, exp) ==
  LET neg == Head(number) = "-"
      u == IF Head(number) \in {"+", "-"} THEN Tail(number) ELSE number
      point == IF Contains(u, <<".">>) THEN IndexOf(u, ".") ELSE Len(u) + 1
      digits == SubSeq(u, 1, point - 1) \o SubSeq(u, point + 1, Len(u))
      places == IF point > Len(u) THEN 0 ELSE Len(u) - point
      whole == (DecVal(digits) * Pow(base, exp)) \div Pow(10, places)
  IN  IF neg THEN -whole ELSE whole

\* C7: the byte-size parser takes powers of 1000 for a kb/mb/gb/tb token
\* with an uppercase letter and powers of 1024 for every other recognized
\* token; no unit means bytes, an unrecognized unit is no match, and the
\* result is number*factor truncated to an integer
C7_UnitFamilyByCase ==
  LET number == Strip(Concat(SubSeq(pieces, 1, Len(pieces) - 1)))
      factor == FactorByCase(unit_raw)
  IN  /\ op = "SizeFactor" =>
           /\ (factor = NoMatch) = (ret = NoMatch)
           /\ factor # NoMatch =>
                /\ ret.exp = factor.exp
                /\ ret.exp > 0 => ret.base = factor.base
      /\ op = "_parse_bytes" =>
           ret = IF IsSizeNumber(number) /\ factor # NoMatch
                   THEN PyInt(Truncated(number, factor.base, factor.exp))
                   ELSE NoMatch

\* one and a half Kb is 1500 bytes
C7_Witness ==
  /\ op = "_parse_bytes" /\ arg.v = <<"1", ".", "5", "K", "b">>
  /\ ret = PyInt(1500)

(***************************************************************************)
(* Interpolation: _interpolate_env alone, inside normalize, and after the  *)
(* expansion of normalize_config.  No optional module is installed, so the *)
(* layered sources come down to the process environment.                   *)
(***************************************************************************)
InterpVocabulary ==
  { <<"$","{","A","}">>, <<"$","{","U","}">>, <<"$","{","A",":","-","d","}">>,
    <<"$","{","U",":","-","d","}">>, <<"$","{","U",":","-","$","B","}">>,
    <<"$","A">>, <<"$","U">>, <<"$">>, <<"a">>, <<"-">> }

\* A holds a token of B, B holds plain text, U is unset
InterpEnvirons ==
  { (<<"A">> :> <<"$","B">>) @@ (<<"B">> :> <<"x">>),
    (<<"A">> :> <<"$","{","B","}">>) @@ (<<"B">> :> <<"x","y">>) }

\* every typed stage and every rewriting of the text but interpolation off
RawOptions ==
  [DefaultOptions EXCEPT !.coerce_empty_to_none = FALSE, !.coerce_null_strings = FALSE,
                         !.parse_booleans = FALSE, !.parse_numbers = FALSE,
                         !.parse_json = FALSE, !.parse_lists = FALSE,
                         !.strip_quotes = FALSE, !.expand_user = FALSE,
                         !.parse_duration = FALSE, !.parse_bytesize = FALSE]

InitInterp ==
  /\ InputInit(InterpVocabulary, MaxTokens, {DefaultOptions, RawOptions}, InterpEnvirons)
  /\ SourcesInit(<<>>, NothingInstalled)

InterpolateEnv == Call("_interpolate_env", PyStr(_interpolate_env(arg.v, environ)))

\* obj has a string leaf, which normalize_config expands from the sources
RECURSIVE HasStr(_)
HasStr(obj) ==
  IF obj.t = "str" THEN TRUE
  ELSE IF obj.t = "list" THEN \E k \in DOMAIN obj.v : HasStr(obj.v[k])
  ELSE IF obj.t = "dict" THEN \E k \in DOMAIN obj.v : HasStr(obj.v[k][2])
  ELSE FALSE

\* the call returns r.ret and leaves the cache r.cache
NormalizeConfigReturns(r) ==
  /\ op = "input"
  /\ op' = "normalize_config"
  /\ ret' = r.ret
  /\ _GLOBAL' = IF HasStr(arg) THEN _ensure_global(_GLOBAL, environ) ELSE _GLOBAL
  /\ _DOTENV_CACHE' = r.cache
  /\ UNCHANGED << pieces, arg, opts, environ, files, installed, frames, entered,
                  expected, changed, calls, pc >>

NormalizeConfig ==
  NormalizeConfigReturns(normalize_config(arg, opts, _GLOBAL, environ, _DOTENV_CACHE,
                                          files, installed))

NextInterp == InterpolateEnv \/ Normalize \/ NormalizeConfig

SpecInterp == InitInterp /\ [][NextInterp]_vars

\* what a piece of the input stands for: a token for the value of its
\* variable, else its default, else nothing; any other text for itself
Expansion(piece) ==
  LET braced == StartsWith(piece, <<"$","{">>) /\ EndsWith(piece, <<"}">>)
      body == SubSeq(piece, 3, Len(piece) - 1)
      cut == CHOOSE i \in 1..(Len(body) + 1) :
               /\ (i <= Len(body) => OccursAt(body, <<":","-">>, i))
               /\ \A j \in 1..(i - 1) : ~OccursAt(body, <<":","-">>, j)
      name == IF braced THEN SubSeq(body, 1, cut - 1) ELSE Tail(piece)
      default == IF braced THEN SubSeq(body, cut + 2, Len(body)) ELSE <<>>
  IN  IF ~braced /\ (Len(piece) < 2 \/ Head(piece) # "$") THEN piece
      ELSE IF name \in DOMAIN environ THEN environ[name]
      ELSE default

\* the input with each piece replaced by what it stands for
Expanded == Concat([k \in DOMAIN pieces |-> Expansion(pieces[k])])

\* the tokens of the input are its pieces: no $ or $NAME piece runs on into
\* the text that follows it
Separate ==
  \A k \in 1..(Len(pieces) - 1) :
    (Head(pieces[k]) = "$" /\ ~EndsWith(pieces[k], <<"}">>))
      => Head(pieces[k + 1]) \notin IdentChars

C4_ExpandedOnce ==
  (op = "normalize_config" /\ Separate) =>
    /\ arg.v = <<"$","{","A","}">> => ret = PyStr(environ[<<"A">>])
    /\ opts = RawOptions => ret = PyStr(Expanded)

(***************************************************************************)
(* The process-wide configuration, the dotenv cache and the layered        *)
(* sources under configure, using, get_env and refresh_dotenv_cache.       *)
(***************************************************************************)
Keys == { <<"K">>, <<"P">> }

Dev == <<"d","e","v">>

DotEnv == <<".","e","n","v">>

DotEnvDev == DotEnv \o <<".">> \o Dev

\* the dotenv files of the working directory "child" and of "parent"
FileSystems ==
  { (<<"child", DotEnv>> :> (<<"K">> :> <<"c">>))
      @@ (<<"parent", DotEnv>> :> ((<<"K">> :> <<"p">>) @@ (<<"P">> :> <<"q">>))),
    (<<"parent", DotEnv>> :> (<<"K">> :> <<"p">>)),
    (<<"child", DotEnv>> :> (<<"K">> :> <<"c">>))
      @@ (<<"child", DotEnvDev>> :> (<<"K">> :> <<"d">>))
      @@ (<<"parent", DotEnv>> :> (<<"P">> :> <<"q">>)) }

Environs == { <<>>, (<<"K">> :> <<"e">>) }

Installs ==
  { [dotenv |-> TRUE, decouple |-> FALSE, decouple_file |-> <<>>],
    [dotenv |-> TRUE, decouple |-> TRUE, decouple_file |-> (<<"P">> :> <<"u">>)] }

\* keyword arguments of using: none, and each of the six alone
Overrides ==
  { NoOverrides,
    [NoOverrides EXCEPT !.search_dirs = PyList(<<"parent">>)],
    [NoOverrides EXCEPT !.env_name = PyStr(Dev)],
    [NoOverrides EXCEPT !.filenames = PyList(<<DotEnvDev>>)],
    [NoOverrides EXCEPT !.stop_at_first_found_dir = PyBool(FALSE)],
    [NoOverrides EXCEPT !.prefer_os_over_dotenv = PyBool(FALSE)],
    [NoOverrides EXCEPT !.use_decouple_if_available = PyBool(FALSE)] }

\* keyword arguments of the calls of configure
Settings ==
  { [NoOverrides EXCEPT !.stop_at_first_found_dir = PyBool(FALSE)],
    [NoOverrides EXCEPT !.prefer_os_over_dotenv = PyBool(FALSE)] }

Init ==
  /\ op = "input" /\ pieces = <<>> /\ arg = None /\ opts = DefaultOptions /\ ret = NoMatch
  /\ environ \in Environs
  /\ \E fs \in FileSystems, inst \in Installs : SourcesInit(fs, inst)

\* what get_env returns for each key in the current state
Values ==
  [k \in Keys |->
     get_env(k, None, DefaultOptions, _GLOBAL, environ, _DOTENV_CACHE, files, installed).ret]

\* the configuration in effect and the values of the keys, kept at the entry
\* of a using block
AtEntry == [config |-> _ensure_global(_GLOBAL, environ), values |-> Values]

\* one more call, within the bound on the calls of a behaviour
Called == calls < MaxOps /\ calls' = calls + 1

Configure(kw) ==
  /\ Called
  /\ op' = "configure" /\ arg' = None /\ ret' = None
  /\ _GLOBAL' = configure(_GLOBAL, kw, environ)
  /\ _DOTENV_CACHE' = <<>>
  /\ expected' = None
  /\ UNCHANGED << pieces, opts, environ, files, installed, frames, entered, changed, pc >>

\* with using(**kw): up to the start of the body
UsingEnter(t, kw) ==
  /\ Len(frames[t]) < MaxDepth
  /\ Called
  /\ op' = "using_enter" /\ arg' = None /\ ret' = None
  /\ frames' = [frames EXCEPT ![t] = Append(@, using_enter(_GLOBAL, kw, environ).prev)]
  /\ _GLOBAL' = using_enter(_GLOBAL, kw, environ).global
  /\ _DOTENV_CACHE' = <<>>
  /\ entered' = [entered EXCEPT ![t] = Append(@, AtEntry)]
  /\ expected' = None
  /\ UNCHANGED << pieces, opts, environ, files, installed, changed, pc >>

\* with using(...) whose configure raises, for search_dirs=[None] or an
\* unknown keyword: the finally restores prev and the body does not run
UsingEnterRaises(t) ==
  /\ Called
  /\ op' = "using_exit" /\ arg' = None /\ ret' = Raise("TypeError")
  /\ _GLOBAL' = _ensure_global(_GLOBAL, environ)
  /\ expected' = AtEntry
  /\ UNCHANGED << pieces, opts, environ, _DOTENV_CACHE, files, installed, frames, entered,
                  changed, pc >>

\* the body of the innermost using block of t ends, by itself or by raising
UsingExit(t, raised) ==
  /\ frames[t] # <<>>
  /\ Called
  /\ op' = "using_exit" /\ arg' = None
  /\ ret' = IF raised THEN Raise("Exception") ELSE None
  /\ _GLOBAL' = using_finally(frames[t])
  /\ frames' = [frames EXCEPT ![t] = SubSeq(@, 1, Len(@) - 1)]
  /\ expected' = entered[t][Len(entered[t])]
  /\ entered' = [entered EXCEPT ![t] = SubSeq(@, 1, Len(@) - 1)]
  /\ UNCHANGED << pieces, opts, environ, _DOTENV_CACHE, files, installed, changed, pc >>

\* get_env(key) returns r.ret and leaves the cache r.cache
GetEnvReturns(key, r) ==
  /\ Called
  /\ op' = "get_env" /\ arg' = PyStr(key) /\ ret' = r.ret
  /\ _GLOBAL' = _ensure_global(_GLOBAL, environ)
  /\ _DOTENV_CACHE' = r.cache
  /\ expected' = None
  /\ UNCHANGED << pieces, opts, environ, files, installed, frames, entered, changed, pc >>

GetEnv(key) ==
  GetEnvReturns(key, get_env(key, None, DefaultOptions, _GLOBAL, environ, _DOTENV_CACHE,
                             files, installed))

RefreshDotenvCache ==
  /\ Called
  /\ op' = "refresh_dotenv_cache" /\ arg' = None /\ ret' = None
  /\ _DOTENV_CACHE' = <<>>
  /\ expected' = None
  /\ UNCHANGED << pieces, opts, environ, _GLOBAL, files, installed, frames, entered,
                  changed, pc >>

\* the dotenv files are rewritten from outside
WriteFiles ==
  /\ Called
  /\ op' = "write" /\ arg' = None /\ ret' = None
  /\ files' \in FileSystems \ {files}
  /\ changed' = TRUE
  /\ expected' = None
  /\ UNCHANGED << pieces, opts, environ, _GLOBAL, _DOTENV_CACHE, installed, frames,
                  entered, pc >>

\* the process environment is changed
SetEnviron ==
  /\ Called
  /\ op' = "setenv" /\ arg' = None /\ ret' = None
  /\ environ' \in Environs \ {environ}
  /\ changed' = TRUE
  /\ expected' = None
  /\ UNCHANGED << pieces, opts, _GLOBAL, _DOTENV_CACHE, files, installed, frames,
                  entered, pc >>

Next ==
  \/ \E kw \in Settings : Configure(kw)
  \/ \E kw \in Overrides : UsingEnter("main", kw)
  \/ UsingEnterRaises("main")
  \/ \E raised \in BOOLEAN : UsingExit("main", raised)
  \/ \E key \in Keys : GetEnv(key)
  \/ RefreshDotenvCache
  \/ WriteFiles
  \/ SetEnviron

Spec == Init /\ [][Next]_vars

\* C9: when a using block has exited, by the end of its body, by a raise in
\* its body or by a raise of its configure, the process-wide configuration is
\* the one that was in effect when the block was entered; blocks inside
\* blocks restore innermost first
C9_UsingRestores == op = "using_exit" => _GLOBAL = expected.config

\* an inner block ends by a raise and puts back what the outer block had set
C9_Witness ==
  /\ op = "using_exit" /\ ret = Raise("Exception")
  /\ Len(frames["main"]) = 1
  /\ _GLOBAL = expected.config
  /\ _GLOBAL # frames["main"][1]

\* C10: when neither the files nor the process environment have changed,
\* get_env returns for every key after a using block what it returned before
\* the block was entered
C10_ValuesRestored == (op = "using_exit" /\ ~changed) => Values = expected.values

\* the configuration in effect in the current state
Config == _ensure_global(_GLOBAL, environ)

\* the mapping the dotenv files of the configured plan hold now
FilesNow ==
  IF installed.dotenv THEN Merge(resolve_files(Config.plan, files), files) ELSE <<>>

\* decouple is enabled, installed and has a value for the key
DecoupleAnswers(key) ==
  /\ Config.use_decouple_if_available /\ installed.decouple
  /\ (key \in DOMAIN environ \/ key \in DOMAIN installed.decouple_file)

\* get_env takes the key from the dotenv mapping m
DotenvSourced(key, m) ==
  /\ ~DecoupleAnswers(key)
  /\ ~(Config.prefer_os_over_dotenv /\ key \in DOMAIN environ)
  /\ key \in DOMAIN m

\* one step of the cache: an entry stays as loaded through every call but
\* refresh_dotenv_cache and configure, which empty the cache; get_env reads a
\* dotenv-sourced key from the entry of its plan when there is one, whatever
\* the files hold by now, and from the files as they are when there is none
CacheStep ==
  LET k == CacheKey(Config.plan)
  IN  /\ op' \in {"refresh_dotenv_cache", "configure", "using_enter"}
           => _DOTENV_CACHE' = <<>>
      /\ op' \notin {"refresh_dotenv_cache", "configure", "using_enter"}
           => \A j \in DOMAIN _DOTENV_CACHE :
                j \in DOMAIN _DOTENV_CACHE' /\ _DOTENV_CACHE'[j] = _DOTENV_CACHE[j]
      /\ (op' = "get_env" /\ k \in DOMAIN _DOTENV_CACHE
            /\ DotenvSourced(arg'.v, _DOTENV_CACHE[k]))
           => ret' = normalize(PyStr(_DOTENV_CACHE[k][arg'.v]), DefaultOptions, environ)
      /\ (op' = "get_env" /\ k \notin DOMAIN _DOTENV_CACHE
            /\ DotenvSourced(arg'.v, FilesNow))
           => /\ ret' = normalize(PyStr(FilesNow[arg'.v]), DefaultOptions, environ)
              /\ _DOTENV_CACHE'[k] = FilesNow

\* C11: under a fixed configuration, once get_env has loaded the dotenv
\* mapping, every later get_env of a dotenv-sourced key returns the value
\* loaded at that first read, even when the file has changed since, until
\* refresh_dotenv_cache or configure is called; the first get_env after
\* refresh_dotenv_cache returns the current value of the file
C11_CachedUntilRefresh == [][CacheStep]_vars

\* get_env returns the value loaded before the file was rewritten: the
\* working directory has no dotenv file any more and K still reads "c"
C11_Witness ==
  /\ op = "get_env" /\ arg = PyStr(<<"K">>) /\ ret = PyStr(<<"c">>)
  /\ changed
  /\ <<"child", DotEnv>> \notin DOMAIN files
  /\ <<"K">> \notin DOMAIN environ

(***************************************************************************)
(* Typed values: normalize and normalize_config on values of every type,   *)
(* get_env and the convenience casts with defaults of every type.          *)
(***************************************************************************)
\* a key no source defines
AbsentKey == <<"Z">>

ValueKeys == Keys \cup {AbsentKey}

Quarter == PyFloat(1, 25, -2)

BoolValues == { PyBool(TRUE), PyBool(FALSE) }

IntValues == { PyInt(0), PyInt(1), PyInt(42), PyInt(-3) }

FloatValues == { Quarter, PyFloat(1, 15, -1), PyFloat(1, 2, 0) }

\* texts: empty, blank, an unset variable, a number, a word
TextValues ==
  { PyStr(<<>>), PyStr(<<" ">>), PyStr(<<"$","{","U","}">>), PyStr(<<"5">>),
    PyStr(<<"A">>) }

\* lists and maps with leaves of every type
ContainerValues ==
  { PyList(<<PyInt(1), PyStr(<<"A">>)>>),
    PyList(<<>>),
    PyDict(<< <<PyStr(<<"k">>), PyStr(<<" ","o","n"," ">>)>>,
              <<PyStr(<<"n">>), Quarter>>,
              <<PyStr(<<"l">>), PyList(<<PyStr(<<"$","K">>), None, PyBool(TRUE),
                                         PyStr(<<"1",",","A">>)>>)>> >>) }

ArgValues == {None} \cup BoolValues \cup IntValues \cup FloatValues \cup TextValues
             \cup ContainerValues

\* the defaults, empty kept as text, an allow-set with lowercasing
ValueOptions ==
  { DefaultOptions,
    [DefaultOptions EXCEPT !.coerce_empty_to_none = FALSE],
    [DefaultOptions EXCEPT !.enum = [t |-> "enum", v |-> {<<"a">>, <<"o","n">>}],
                           !.lowercase_strings = TRUE] }

InitValues ==
  /\ op = "input" /\ pieces = <<>> /\ ret = NoMatch
  /\ arg \in ArgValues
  /\ opts \in ValueOptions
  /\ environ \in Environs
  /\ \E fs \in FileSystems, inst \in Installs : SourcesInit(fs, inst)

\* a call of get_env or of a cast with the arguments key and default
\* returns r.ret and leaves the cache r.cache
SourceReturns(name, key, default, r) ==
  /\ op \in {"input", "configure"}
  /\ op' = name /\ arg' = PyList(<<PyStr(key), default>>) /\ ret' = r.ret
  /\ _GLOBAL' = _ensure_global(_GLOBAL, environ)
  /\ _DOTENV_CACHE' = r.cache
  /\ UNCHANGED << pieces, opts, environ, files, installed, frames, entered, expected,
                  changed, calls, pc >>

\* get_env and the casts
Wrappers == { "get_env", "env_bool", "env_int", "env_float" }

\* the defaults given to each: any value to get_env, None or a value of its
\* type to a cast
DefaultsOf(name) ==
  CASE name = "env_bool" -> {None} \cup BoolValues
    [] name = "env_int" -> {None} \cup IntValues
    [] name = "env_float" -> {None} \cup FloatValues
    [] OTHER -> ArgValues

\* get_env(key, default, **opts), env_bool(key, default), env_int(key,
\* default), env_float(key, default): a cast calls get_env with the default
\* options and casts what it returns
SourceCall(name, key, default) ==
  SourceReturns(name, key, default,
                CastOf(name, get_env(key, DefaultOf(name, default),
                                     IF name = "get_env" THEN opts ELSE DefaultOptions,
                                     _GLOBAL, environ, _DOTENV_CACHE, files, installed)))

NextValues ==
  \/ Normalize
  \/ NormalizeConfig
  \/ \E kw \in Settings : Configure(kw)
  \/ \E name \in Wrappers, key \in ValueKeys :
       \E default \in DefaultsOf(name) : SourceCall(name, key, default)

SpecValues == InitValues /\ [][NextValues]_vars

\* the key and the default of the last call of get_env or of a cast
CallKey == arg.v[1].v

CallDefault == arg.v[2]

\* what the process environment and the dotenv files give for the key of
\* the call: the one that has it, the preferred one when both have it, the
\* default when neither has it
Preferred ==
  IF CallKey \in DOMAIN environ /\ CallKey \in DOMAIN FilesNow
    THEN (IF Config.prefer_os_over_dotenv THEN PyStr(environ[CallKey])
          ELSE PyStr(FilesNow[CallKey]))
  ELSE IF CallKey \in DOMAIN environ THEN PyStr(environ[CallKey])
  ELSE IF CallKey \in DOMAIN FilesNow THEN PyStr(FilesNow[CallKey])
  ELSE CallDefault

RECURSIVE Preserved(_, _)
Preserved(obj, out) ==
  CASE obj.t = "dict" ->
         /\ out.t = "dict" /\ Len(out.v) = Len(obj.v)
         /\ \A k \in DOMAIN obj.v :
              out.v[k][1] = obj.v[k][1] /\ Preserved(obj.v[k][2], out.v[k][2])
    [] obj.t = "list" ->
         /\ out.t = "list" /\ Len(out.v) = Len(obj.v)
         /\ \A k \in DOMAIN obj.v : Preserved(obj.v[k], out.v[k])
    [] obj.t = "str" -> out.t # "raise"
    [] OTHER -> out = obj

\* C13: normalize_config returns for a map a map with the same keys, for a
\* list a list of the same length and order, and every leaf that is neither
\* map, list nor text unchanged whatever the options, an allow-set included;
\* only a text leaf is expanded and normalized, so only a text leaf can make
\* the call raise
C13_StructurePreserved ==
  op = "normalize_config" =>
    IF ret.t = "raise" THEN HasStr(arg) /\ opts.enum # NoEnum ELSE Preserved(arg, ret)

\* under an allow-set the int of a list stays as it is and is not checked,
\* while the text beside it is lowered and checked
C13_Witness ==
  /\ op = "normalize_config" /\ opts.enum # NoEnum
  /\ arg = PyList(<<PyInt(1), PyStr(<<"A">>)>>)
  /\ ret = PyList(<<PyInt(1), PyStr(<<"a">>)>>)

(***************************************************************************)
(* normalize on texts with separators, under several list_separators.      *)
(***************************************************************************)
ListVocabulary ==
  { <<"a">>, <<"o","n">>, <<"1">>, <<",">>, <<";">>, <<" ">>, <<"[","1","]">> }

\* the default separator, two separators in either order, an allow-set that
\* holds the text of a list, list splitting off
ListOptions ==
  { DefaultOptions,
    [DefaultOptions EXCEPT !.list_separators = << <<";">>, <<",">> >>],
    [DefaultOptions EXCEPT !.list_separators = << <<",">>, <<";">> >>],
    [DefaultOptions EXCEPT
       !.enum = [t |-> "enum", v |-> { <<"[","'","a","'",","," ","'","a","'","]">> }]],
    [DefaultOptions EXCEPT !.parse_lists = FALSE] }

InitList ==
  /\ InputInit(ListVocabulary, MaxParts, ListOptions, {NoEnviron})
  /\ SourcesInit(<<>>, NothingInstalled)

NextList == Normalize

SpecList == InitList /\ [][NextList]_vars

\* the first separator, in the order of list_separators, that occurs in s
FirstOccurring(s) ==
  opts.list_separators[
    CHOOSE i \in DOMAIN opts.list_separators :
      /\ Contains(s, opts.list_separators[i])
      /\ \A j \in 1..(i - 1) : ~Contains(s, opts.list_separators[j])]

\* the options of the call with list splitting and the enum check off
WithoutListsAndEnum == [opts EXCEPT !.parse_lists = FALSE, !.enum = NoEnum]

\* the k-th part of the working text, trimmed
Part(k) == PyStr(Strip(Split(Working.s, FirstOccurring(Working.s))[k]))

\* C14: when the list stage is reached, normalize splits the text on the
\* first separator, in list_separators order, that occurs in it, trims each
\* part and normalizes it with the same options but list splitting and the
\* enum check off; the list returned has one element per part, no element
\* comes from list splitting, and normalize is at most two calls deep
C14_ListSplit ==
  (op = "normalize" /\ StageOf(arg, opts, environ) = "list" /\ ret.t # "raise")
    => /\ ret.t = "list"
       /\ Len(ret.v) = Len(Split(Working.s, FirstOccurring(Working.s)))
       /\ \A k \in DOMAIN ret.v :
            /\ ret.v[k] = normalize(Part(k), WithoutListsAndEnum, environ)
            /\ StageOf(Part(k), ItemOptions(opts), environ) # "list"
       /\ Depth(arg, opts, environ) <= 2

\* ";,a" under the separators "," then ";": split on ",", the first in the
\* order of list_separators, though ";" comes first in the text
C14_Witness ==
  /\ op = "normalize"
  /\ opts.list_separators = << <<",">>, <<";">> >>
  /\ arg = PyStr(<<";", ",", "a">>)
  /\ ret = PyList(<<PyStr(<<";">>), PyStr(<<"a">>)>>)

\* the input is None, or a text that is empty once trimmed and interpolated
EmptyInput ==
  arg = None \/ (arg.t = "str" /\ Interpolated(arg.v, opts, environ) = <<>>)

\* C15: None and a text that is empty after trimming and interpolation
\* become None when coerce_empty_to_none is on and the empty text when it
\* is off
C15_EmptyToNone ==
  (op = "normalize" /\ EmptyInput)
    => ret = IF opts.coerce_empty_to_none THEN None ELSE PyStr(<<>>)

(***************************************************************************)
(* normalize on texts within quotes: JSON, and variables of the process    *)
(* environment.                                                            *)
(***************************************************************************)
QuotedVocabulary ==
  { <<"\"">>, <<"'">>, <<"[","1","]">>, <<"{","}">>, <<"[">>, <<"{">>, <<"1">>, <<"a">>,
    <<",">>, <<"$","{","A","}">>, <<"$","A">> }

\* the defaults, quotes kept, JSON off
QuotedOptions ==
  { DefaultOptions,
    [DefaultOptions EXCEPT !.strip_quotes = FALSE],
    [DefaultOptions EXCEPT !.parse_json = FALSE] }

\* A is set to a plain text
QuotedEnvirons == { (<<"A">> :> <<"x">>) }

InitQuoted ==
  /\ InputInit(QuotedVocabulary, MaxParts, QuotedOptions, QuotedEnvirons)
  /\ SourcesInit(<<>>, NothingInstalled)

NextQuoted == Normalize

SpecQuoted == InitQuoted /\ [][NextQuoted]_vars

\* the trimmed and interpolated input sits within matching quotes, which
\* normalize strips
Quoted ==
  LET s == Interpolated(arg.v, opts, environ)
  IN  opts.strip_quotes /\ Len(s) >= 2 /\ s[1] = s[Len(s)] /\ s[1] \in {"\"", "'"}

\* the JSON stage is attempted, and the text it parses
JsonAttempted ==
  /\ opts.parse_json
  /\ (StartsWith(Working.s, <<"{">>) \/ StartsWith(Working.s, <<"[">>) \/ Quoted)

JsonText == IF Quoted THEN Strip(arg.v) ELSE Working.s

\* a stage before the JSON stage has a result
EarlierStage ==
  \E f \in {"null", "boolean", "percent", "duration", "bytesize", "number"} :
    StageResults(arg.v, Working, opts, environ)[f] # NoMatch

\* C16: the JSON stage is attempted only for a working text that starts with
\* "{" or "[" or for a value that was quoted; for a quoted value it parses the
\* trimmed input with its quotes still on, not the stripped and unescaped
\* text; a parse that fails is no match and leaves the value to list
\* splitting and the string fallback
C16_JsonStage ==
  (op = "normalize" /\ Interpolated(arg.v, opts, environ) # <<>> /\ ~EarlierStage)
    => IF JsonAttempted /\ _try_json(JsonText) # NoMatch
         THEN StageOf(arg, opts, environ) = "json" /\ ret = _try_json(JsonText).v
         ELSE /\ StageOf(arg, opts, environ) \in {"list", "string"}
              /\ (ret.t = "list" \/ ret = PyStr(Working.s))

\* "[1]" within double quotes is parsed with its quotes on and comes back
\* as the text [1], not as a list
C16_Witness ==
  /\ op = "normalize" /\ opts = DefaultOptions
  /\ arg = PyStr(<<"\"", "[", "1", "]", "\"">>)
  /\ Quoted /\ JsonAttempted
  /\ ret = PyStr(<<"[", "1", "]">>)

\* the key of the call is in no source: not in the process environment, in
\* no dotenv file, not in decouple's settings
InNoSource ==
  /\ CallKey \notin DOMAIN environ
  /\ \A f \in DOMAIN files : CallKey \notin DOMAIN files[f]
  /\ CallKey \notin DOMAIN installed.decouple_file

\* a value that is neither None nor a text
Typed(v) == v # None /\ v.t # "str"

\* C17: normalize returns an input that is neither a text nor None (int,
\* float, bool, list, map) unchanged whatever the options, an enum allow-set
\* and lowercase_strings included; so get_env returns a default of such a
\* type unchanged for a key that no source defines
C17_TypedPassThrough ==
  /\ (op = "normalize" /\ Typed(arg)) => ret = arg
  /\ (op = "get_env" /\ InNoSource /\ Typed(CallDefault)) => ret = CallDefault

\* under an allow-set with lowercasing, get_env of a key that no source
\* defines returns the default, a list with an upper-case text, as it was
C17_Witness ==
  /\ opts.enum # NoEnum /\ opts.lowercase_strings
  /\ op = "get_env" /\ CallKey = AbsentKey /\ InNoSource
  /\ CallDefault = PyList(<<PyInt(1), PyStr(<<"A">>)>>) /\ ret = CallDefault

\* the candidate files of a directory that define the key, by their place in
\* the candidate order
Defining(dir, key) ==
  { c \in DOMAIN Candidates(Config.plan) :
      /\ <<dir, Candidates(Config.plan)[c]>> \in DOMAIN files
      /\ key \in DOMAIN files[<<dir, Candidates(Config.plan)[c]>>] }

\* the value a directory gives to the key: that of the last of its files,
\* in the order .env, .env.<env>, .env.local, .env.<env>.local, to define it
DirValue(dir, key) ==
  files[<<dir, Candidates(Config.plan)[Max(Defining(dir, key))]>>][key]

\* the first entry of search_dirs with a file that defines the key
FirstDir(key) ==
  Config.plan.search_dirs[
    Min({d \in DOMAIN Config.plan.search_dirs :
           Defining(Config.plan.search_dirs[d], key) # {}})]

\* a get_env that loads the dotenv mapping of its plan merges the files so
\* that every key has the value of the first directory that defines it
DiscoveryStep ==
  LET k == CacheKey(Config.plan)
  IN  (op' = "get_env" /\ k \notin DOMAIN _DOTENV_CACHE /\ k \in DOMAIN _DOTENV_CACHE')
        => \A key \in DOMAIN _DOTENV_CACHE'[k] :
             _DOTENV_CACHE'[k][key] = DirValue(FirstDir(key), key)

\* C18: for either setting of stop_at_first_found_dir, the value a dotenv
\* file in an earlier entry of search_dirs gives to a key is never overridden
\* in the merged mapping by the value of a later entry; within a directory
\* the files override in the order .env, .env.<env>, .env.local,
\* .env.<env>.local, the later winning
C18_FirstDirectoryWins == [][DiscoveryStep]_vars

\* a == b of Python for two values that may be numbers: True, 1 and 1.0 are
\* equal, nothing else is equal to a number
NumbersEqual(a, b) ==
  /\ a.t \in {"bool", "int", "float"}
  /\ b.t \in {"bool", "int", "float"}
  /\ FloatOf(a) = FloatOf(b)

\* C19: env_bool, env_int and env_float return a value equal to their
\* default d when the key is in no source and d is a non-None value of the
\* wrapper's type: every boolean, every integer, 0 and 1 included, and
\* every float, fractional ones such as 0.25 included
C19_DefaultReturned ==
  (/\ op \in {"env_bool", "env_int", "env_float"}
   /\ InNoSource
   /\ CallDefault # None)
    => NumbersEqual(ret, CallDefault)

\* the text s holds the token ${name} or $name at place i; the short form
\* ends where the name ends
TokenAt(s, name, i) ==
  \/ OccursAt(s, <<"$", "{">> \o name \o <<"}">>, i)
  \/ /\ OccursAt(s, <<"$">> \o name, i)
     /\ (i + Len(name) + 1 > Len(s) \/ s[i + Len(name) + 1] \notin IdentChars)

\* the text s holds a token of the variable name
HasToken(s, name) == \E i \in DOMAIN s : TokenAt(s, name, i)

\* C20: with interpolation on, when normalize returns a text for an input
\* that holds ${NAME} or $NAME of a variable set to the plain text v, the
\* text returned holds v and no token of the variable, whether or not the
\* input was wrapped in matching single or double quotes
C20_TokensReplaced ==
  (/\ op = "normalize" /\ opts.interpolate_env
   /\ arg.t = "str" /\ ret.t = "str")
    => \A name \in DOMAIN environ :
         HasToken(arg.v, name)
           => Contains(ret.v, environ[name]) /\ ~HasToken(ret.v, name)

(***************************************************************************)
(* Two threads, each in one call of the configuration or of the sources,   *)
(* interleaved statement by statement.                                     *)
(***************************************************************************)
Workers == {"t1", "t2"}

\* a thread at the start of a call, its locals unset
Thread(call, kw, key) ==
  [ at |-> "start", call |-> call, kw |-> kw, key |-> key, prev |-> None, cur |-> None,
    g |-> None, merged |-> <<>>, raw |-> None, ret |-> NoMatch ]

\* keyword arguments of the using blocks of the threads
ThreadOverrides ==
  { NoOverrides,
    [NoOverrides EXCEPT !.search_dirs = PyList(<<"parent">>)],
    [NoOverrides EXCEPT !.prefer_os_over_dotenv = PyBool(FALSE)] }

ThreadCalls ==
  { Thread("using", kw, None) : kw \in ThreadOverrides }
    \cup { Thread("configure", kw, None) : kw \in Settings }
    \cup { Thread("get_env", None, PyStr(key)) : key \in Keys }
    \cup { Thread("refresh_dotenv_cache", None, None) }

\* expected keeps the configuration in effect before any thread has started
InitThreads ==
  /\ op = "input" /\ pieces = <<>> /\ arg = None /\ opts = DefaultOptions /\ ret = NoMatch
  /\ environ \in Environs
  /\ _GLOBAL \in {None} \cup { configure(None, kw, environ) : kw \in Settings }
  /\ _DOTENV_CACHE = <<>>
  /\ files \in FileSystems
  /\ installed \in Installs
  /\ frames = [t \in Threads |-> <<>>]
  /\ entered = [t \in Threads |-> <<>>]
  /\ expected = [config |-> _ensure_global(_GLOBAL, environ)]
  /\ changed = FALSE
  /\ calls = 0
  /\ pc \in { f \in [Threads -> ThreadCalls \cup {Idle}] :
                f["main"] = Idle /\ \A t \in Workers : f[t] # Idle }

\* thread t goes on as next; what its statement leaves alone is named by
\* the action
Goes(t, next) ==
  /\ pc' = [pc EXCEPT ![t] = next]
  /\ UNCHANGED << op, pieces, arg, opts, ret, environ, files, installed, frames, entered,
                  expected, changed, calls >>

\* using: prev = _ensure_global()
UsingPrev(t) ==
  /\ pc[t].call = "using" /\ pc[t].at = "start"
  /\ _GLOBAL' = _ensure_global(_GLOBAL, environ)
  /\ Goes(t, [pc[t] EXCEPT !.at = "configure", !.prev = _ensure_global(_GLOBAL, environ)])
  /\ UNCHANGED _DOTENV_CACHE

\* configure: cur = _ensure_global()
ConfigureCur(t) ==
  /\ \/ pc[t].call = "configure" /\ pc[t].at = "start"
     \/ pc[t].call = "using" /\ pc[t].at = "configure"
  /\ _GLOBAL' = _ensure_global(_GLOBAL, environ)
  /\ Goes(t, [pc[t] EXCEPT !.at = "assign", !.cur = _ensure_global(_GLOBAL, environ)])
  /\ UNCHANGED _DOTENV_CACHE

\* configure: _GLOBAL = _GlobalConfig(...) built from cur and the keywords
ConfigureAssign(t) ==
  /\ pc[t].at = "assign"
  /\ _GLOBAL' = configure(pc[t].cur, pc[t].kw, environ)
  /\ Goes(t, [pc[t] EXCEPT !.at = "refresh"])
  /\ UNCHANGED _DOTENV_CACHE

\* configure: refresh_dotenv_cache(); a using block is then in its body
ConfigureRefresh(t) ==
  /\ pc[t].at = "refresh"
  /\ _DOTENV_CACHE' = <<>>
  /\ Goes(t, [pc[t] EXCEPT !.at = IF pc[t].call = "using" THEN "body" ELSE "done"])
  /\ UNCHANGED _GLOBAL

\* using: the body ends and the finally assigns _GLOBAL = prev
UsingFinally(t) ==
  /\ pc[t].at = "body"
  /\ _GLOBAL' = pc[t].prev
  /\ Goes(t, [pc[t] EXCEPT !.at = "done"])
  /\ UNCHANGED _DOTENV_CACHE

\* refresh_dotenv_cache(): _DOTENV_CACHE.clear()
Refresh(t) ==
  /\ pc[t].call = "refresh_dotenv_cache" /\ pc[t].at = "start"
  /\ _DOTENV_CACHE' = <<>>
  /\ Goes(t, [pc[t] EXCEPT !.at = "done"])
  /\ UNCHANGED _GLOBAL

\* get_env: g = _ensure_global(), decouple when it is on and has the key,
\* then in _raw_from_dotenv_or_os the process environment when g prefers it;
\* else the thread goes on into _load_dotenv_map(g.plan)
GetEnvSources(t) ==
  /\ pc[t].call = "get_env" /\ pc[t].at = "start"
  /\ _GLOBAL' = _ensure_global(_GLOBAL, environ)
  /\ LET g == _ensure_global(_GLOBAL, environ)
         key == pc[t].key.v
     IN  Goes(t, IF g.use_decouple_if_available /\ installed.decouple
                    /\ _raw_from_decouple(key, environ, installed) # _SENTINEL
                   THEN [pc[t] EXCEPT !.at = "normalize", !.g = g,
                                      !.raw = _raw_from_decouple(key, environ, installed)]
                 ELSE IF g.prefer_os_over_dotenv /\ key \in DOMAIN environ
                   THEN [pc[t] EXCEPT !.at = "normalize", !.g = g,
                                      !.raw = PyStr(environ[key])]
                 ELSE [pc[t] EXCEPT !.at = "load", !.g = g])
  /\ UNCHANGED _DOTENV_CACHE

\* the raw value _raw_from_dotenv_or_os makes of the mapping it was handed
RawOf(key, mapping) ==
  DotenvThenOs(key, None, [map |-> mapping, cache |-> <<>>], environ).raw

\* _load_dotenv_map: cached = _DOTENV_CACHE.get(key), returned when it is
\* there
LoadLookup(t) ==
  /\ pc[t].at = "load"
  /\ Goes(t, IF CacheKey(pc[t].g.plan) \in DOMAIN _DOTENV_CACHE
               THEN [pc[t] EXCEPT !.at = "normalize",
                                  !.raw = RawOf(pc[t].key.v,
                                                _DOTENV_CACHE[CacheKey(pc[t].g.plan)])]
               ELSE [pc[t] EXCEPT !.at = "read"])
  /\ UNCHANGED << _GLOBAL, _DOTENV_CACHE >>

\* _load_dotenv_map: merged is built from the files of the plan, or is
\* empty without dotenv
LoadRead(t) ==
  /\ pc[t].at = "read"
  /\ Goes(t, [pc[t] EXCEPT !.at = "store",
                           !.merged = IF installed.dotenv
                                        THEN Merge(resolve_files(pc[t].g.plan, files), files)
                                        ELSE <<>>])
  /\ UNCHANGED << _GLOBAL, _DOTENV_CACHE >>

\* _load_dotenv_map: _DOTENV_CACHE[key] = dict(merged)
LoadStore(t) ==
  /\ pc[t].at = "store"
  /\ _DOTENV_CACHE' = Loaded(CacheKey(pc[t].g.plan), pc[t].merged, _DOTENV_CACHE).cache
  /\ Goes(t, [pc[t] EXCEPT !.at = "return"])
  /\ UNCHANGED _GLOBAL

\* _load_dotenv_map: return _DOTENV_CACHE[key], a second look into the
\* cache that raises KeyError when the entry is gone
LoadReturn(t) ==
  /\ pc[t].at = "return"
  /\ Goes(t, IF CacheKey(pc[t].g.plan) \in DOMAIN _DOTENV_CACHE
               THEN [pc[t] EXCEPT !.at = "normalize",
                                  !.raw = RawOf(pc[t].key.v,
                                                _DOTENV_CACHE[CacheKey(pc[t].g.plan)])]
               ELSE [pc[t] EXCEPT !.at = "done", !.ret = Raise("KeyError")])
  /\ UNCHANGED << _GLOBAL, _DOTENV_CACHE >>

\* get_env: return normalize(raw)
GetEnvNormalize(t) ==
  /\ pc[t].at = "normalize"
  /\ Goes(t, [pc[t] EXCEPT !.at = "done",
                           !.ret = normalize(pc[t].raw, DefaultOptions, environ)])
  /\ UNCHANGED << _GLOBAL, _DOTENV_CACHE >>

NextThreads ==
  \E t \in Workers :
    \/ UsingPrev(t)
    \/ ConfigureCur(t)
    \/ ConfigureAssign(t)
    \/ ConfigureRefresh(t)
    \/ UsingFinally(t)
    \/ Refresh(t)
    \/ GetEnvSources(t)
    \/ LoadLookup(t)
    \/ LoadRead(t)
    \/ LoadStore(t)
    \/ LoadReturn(t)
    \/ GetEnvNormalize(t)

SpecThreads == InitThreads /\ [][NextThreads]_vars

\* C21: when two threads each run a using block at the same time, then
\* however their entries and exits interleave, once both blocks have exited
\* the process-wide configuration is the one that was in effect before
\* either block was entered
C21_ThreadsRestore ==
  (\A t \in Workers : pc[t].call = "using" /\ pc[t].at = "done")
    => _GLOBAL = expected.config

\* C22: a get_env that loads the dotenv mapping while another thread calls
\* refresh_dotenv_cache or configure ends without an error in every
\* interleaving: it never comes upon a missing cache entry
C22_LoadCompletes ==
  \A t \in Workers :
    (pc[t].call = "get_env" /\ pc[t].at = "done") => pc[t].ret.t # "raise"

=============================================================================
